---- MODULE Spec2Model ----
(***************************************************************************)
(* GridBoss: results ingestion and standings engine.                       *)
(*                                                                         *)
(* The model covers api/app/routes/results.py (submit_results),            *)
(* api/app/routes/standings.py (read_standings),                           *)
(* api/app/services/idempotency.py (IdempotencyService) and                *)
(* api/app/services/standings.py (StandingsCache, calculate_standings).    *)
(*                                                                         *)
(* Each element of Procs is one server process.  Both handlers are         *)
(* `async def` bodies without an await, so inside one process a handler    *)
(* runs to completion before the next one starts; handlers of different    *)
(* processes interleave at every access to the relational store or to the  *)
(* shared key-value store.  The relational store is read-committed: every  *)
(* statement sees the rows committed when it starts, plus the writes of    *)
(* its own transaction.                                                    *)
(***************************************************************************)
EXTENDS Integers, Sequences, FiniteSets, TLC

(* ----------------------------- bounds --------------------------------- *)
MaxSubmits == 2      \* results submissions started in one behaviour
MaxReads == 2        \* standings reads started in one behaviour
MaxFlaps == 1        \* availability changes of the shared store
MaxExpiries == 1     \* TTL expiries of idempotency records / cache entries
MaxDbErrors == 1     \* persistence failures raised inside the mutation
MaxRenames == 2      \* driver renames started in one behaviour
MaxEdits == 2        \* event updates and cancellations started in one behaviour
MaxSchemeOps == 3    \* points-scheme requests started in one behaviour
MaxCorruptions == 1   \* payloads of the shared cache damaged from outside

(* ------------------------------ state --------------------------------- *)
VARIABLES
    results,      \* committed rows of table results
    eventStatus,  \* committed Event.status of every event
    auditLog,     \* committed audit entries
    tx,           \* per process: the open transaction's uncommitted writes
    redisUp,      \* whether the shared key-value store answers
    idemRedis,    \* idempotency records in the shared store: key -> hash
    cacheRedis,   \* standings cache entries in the shared store: key -> payload
    idemClient,   \* per process: IdempotencyService._redis_client of the singleton
    cacheClient,  \* per process: StandingsCache._redis_client of the singleton
    idemMem,      \* per process: IdempotencyService._memory_store
    cacheMem,     \* per process: StandingsCache._memory_store
    pc,           \* per process: position of the running handler
    cur,          \* per process: arguments and locals of the running handler
    log,          \* responses sent so far, in order
    hist,         \* every state the relational store has had after a commit
    eventSeason,  \* committed Event.season_id of every event
    driverNames,  \* committed Driver.display_name of every driver
    schemes,      \* committed rows of points_schemes with their rules
    used,         \* how much of each bound the behaviour has used
    jobs          \* messages enqueued on the job broker

(* --------------------------- static data ------------------------------ *)
Procs == {"p1", "p2"}
Events == {"e1", "e2"}
UnknownEvent == "e9"
Drivers == {"d1", "d2", "d3"}
NoKey == "none"
NoSeason == "none"
\* a field a PATCH body does not carry (model_dump(exclude_unset=True))
Unset == "unset"

\* an event of the other league, used where standings are calculated
OtherEvent == "e3"
EventLeague(e) == IF e = OtherEvent THEN "L2" ELSE "L1"
\* Event.season_id and Driver.display_name as committed
EventSeason(e) == eventSeason[e]
DriverLeague(d) == IF d = "d3" THEN "L2" ELSE "L1"
DriverRank(d) == CASE d = "d1" -> 1 [] d = "d2" -> 2 [] OTHER -> 3
display_name(d) == driverNames[d]
SeedNames == [d \in Drivers |->
                 CASE d = "d1" -> "Driver A" [] d = "d2" -> "Driver B" [] OTHER -> "Driver C"]
SeedSeasons == [e \in Events |-> IF e = "e1" THEN "S1" ELSE NoSeason]
\* str.lower() on the names in use
LowerName(n) ==
    CASE n = "Driver A" -> "driver a" [] n = "Driver B" -> "driver b"
      [] n = "Driver C" -> "driver c" [] n = "" -> "" [] OTHER -> "max"
\* rank of display_name.lower() in string order
NameRank(d) ==
    CASE LowerName(display_name(d)) = "driver a" -> 1
      [] LowerName(display_name(d)) = "driver b" -> 2
      [] LowerName(display_name(d)) = "driver c" -> 3
      [] OTHER -> 4

\* ROLE_PRIORITY of services/rbac.py; 0 stands for "no membership"
DRIVER == 1
STEWARD == 2
ADMIN == 3
Roles == {0, DRIVER, STEWARD}

Entry(d, p, b, n, s) ==
    [driver_id |-> d, finish_position |-> p, bonus_points |-> b,
     penalty_points |-> n, status |-> s]

PayloadAB == << Entry("d1", 1, 0, 0, "FINISHED"), Entry("d2", 2, 0, 0, "FINISHED") >>
PayloadA == << Entry("d1", 1, 0, 0, "FINISHED") >>
PayloadB == << Entry("d2", 1, 0, 0, "FINISHED") >>
PayloadABdnf == << Entry("d2", 2, 0, 0, "DNF"), Entry("d1", 1, 0, 0, "FINISHED") >>
PayloadDupDriver == << Entry("d1", 1, 0, 0, "FINISHED"), Entry("d1", 2, 0, 0, "FINISHED") >>
PayloadDupPos == << Entry("d1", 1, 0, 0, "FINISHED"), Entry("d3", 1, 0, 0, "FINISHED") >>
PayloadDupBoth == << Entry("d3", 1, 0, 0, "FINISHED"), Entry("d3", 1, 0, 0, "FINISHED") >>
PayloadC == << Entry("d3", 1, 0, 0, "FINISHED") >>
PayloadMissing == << Entry("d1", 1, 0, 0, "FINISHED"), Entry("d3", 2, 0, 0, "FINISHED") >>

ValidPayloads == {PayloadAB, PayloadA, PayloadB}
\* entries with bonus and penalty points, and a position without a points rule
PayloadBonus == << Entry("d1", 1, 1, 0, "FINISHED"), Entry("d2", 2, 0, 0, "FINISHED") >>
PayloadPenalty == << Entry("d1", 10, 0, 5, "FINISHED") >>
PayloadNoRule == << Entry("d2", 11, 2, 0, "FINISHED"), Entry("d1", 1, 0, 30, "DSQ") >>
PayloadNegBonus == << Entry("d1", 2, -20, 0, "FINISHED") >>
ScoringPayloads == {PayloadBonus, PayloadPenalty, PayloadNoRule, PayloadNegBonus}
InvalidPayloads == {PayloadDupDriver, PayloadDupPos, PayloadDupBoth, PayloadMissing}

(* ------------------------- pure functions ----------------------------- *)
Range(s) == {s[i] : i \in DOMAIN s}

\* the lists holding every element of S once in ascending finish_position
\* (ORDER BY finish_position, sorted(key=finish_position)); the order among
\* equal positions is not determined
SortedByPosition(S) ==
    {s \in [1..Cardinality(S) -> S] :
        \A i, j \in 1..Cardinality(S) :
            i < j => s[i] # s[j] /\ s[i].finish_position <= s[j].finish_position}

\* sorted(entries, key=driver_id)
SortedByDriver(S) ==
    {s \in [1..Cardinality(S) -> S] :
        \A i, j \in 1..Cardinality(S) :
            i < j => s[i] # s[j] /\ DriverRank(s[i].driver_id) <= DriverRank(s[j].driver_id)}

DEFAULT_F1_POINTS == << 25, 18, 15, 12, 10, 8, 6, 4, 2, 1 >>

\* points_map.get(position, 0)
Get(points_map, position) ==
    IF position \in DOMAIN points_map THEN points_map[position] ELSE 0

\* the base points when the league has no default scheme
base_points(position) == Get(DEFAULT_F1_POINTS, position)

\* rows of points_schemes, each with its rules as a position -> points map
SchemeSeason == [id |-> "ps1", league_id |-> "L1", season_id |-> "S1",
                 is_default |-> TRUE, rules |-> (1 :> 20)]
SchemeLeague == [id |-> "ps2", league_id |-> "L1", season_id |-> NoSeason,
                 is_default |-> TRUE, rules |-> (1 :> 10 @@ 2 :> 6)]
SchemeSpare == [id |-> "ps3", league_id |-> "L1", season_id |-> "S1",
                is_default |-> FALSE, rules |-> (1 :> 5)]
SchemeOther == [id |-> "ps4", league_id |-> "L2", season_id |-> NoSeason,
                is_default |-> TRUE, rules |-> (1 :> 7)]
SchemeS2 == [id |-> "ps5", league_id |-> "L1", season_id |-> "S2",
             is_default |-> TRUE, rules |-> (1 :> 30)]
SchemeConfigs == SUBSET {SchemeSeason, SchemeLeague, SchemeSpare, SchemeOther, SchemeS2}

\* build_points_map: the (position, points) pairs as a lookup map
build_points_map(rules) == rules

\* the same lookup with the league-wide default tried before the season's
_load_points_scheme_league_first(e) ==
    LET exact == {x \in schemes : /\ x.league_id = EventLeague(e)
                                  /\ x.season_id = EventSeason(e)
                                  /\ x.is_default}
        league == {x \in schemes : /\ x.league_id = EventLeague(e)
                                   /\ x.season_id = NoSeason
                                   /\ x.is_default}
        found == IF league # {} THEN league ELSE exact
    IN  IF found = {} THEN {build_points_map(DEFAULT_F1_POINTS)}
        ELSE {IF DOMAIN x.rules = {} THEN build_points_map(DEFAULT_F1_POINTS)
              ELSE build_points_map(x.rules) : x \in found}

\* the default scheme of the event's league and season, else the default scheme
\* of the league without season, else (or when the scheme has no rules) the
\* built-in table; .first() may return any matching row
_load_points_scheme(e) ==
    LET exact == {x \in schemes : /\ x.league_id = EventLeague(e)
                                  /\ x.season_id = EventSeason(e)
                                  /\ x.is_default}
        league == {x \in schemes : /\ x.league_id = EventLeague(e)
                                   /\ x.season_id = NoSeason
                                   /\ x.is_default}
        found == IF exact # {} THEN exact ELSE league
    IN  IF found = {} THEN {build_points_map(DEFAULT_F1_POINTS)}
        ELSE {IF DOMAIN x.rules = {} THEN build_points_map(DEFAULT_F1_POINTS)
              ELSE build_points_map(x.rules) : x \in found}

\* the sum without the floor
_compute_total_points_unfloored(base, bonus, penalty) == base + bonus - penalty

_compute_total_points(base, bonus, penalty) ==
    LET total == base + bonus - penalty IN IF total > 0 THEN total ELSE 0

\* IdempotencyService._build_key: the storage key is lower-cased
Lower(k) == IF k = "K1" THEN "k1" ELSE k
_build_key(e, k) == << e, Lower(k) >>

\* payload_hash of submit_results: driver, position, bonus and penalty of each
\* entry, sorted by driver id; started_position and status are not part of it
HashEntry(x) ==
    << x.driver_id, x.finish_position, x.bonus_points, x.penalty_points >>
payload_hash(entries) ==
    LET s == CHOOSE q \in SortedByDriver(Range(entries)) : TRUE
    IN  [i \in DOMAIN s |-> HashEntry(s[i])]

\* one Result row as submit_results builds it from the resolved points map; id
\* is the number of the request that inserted it (the primary key)
ResultWith(points_map, no, e, x) ==
    [id |-> no, event_id |-> e, driver_id |-> x.driver_id,
     finish_position |-> x.finish_position, status |-> x.status,
     bonus_points |-> x.bonus_points, penalty_points |-> x.penalty_points,
     total_points |-> _compute_total_points(Get(points_map, x.finish_position),
                                            x.bonus_points, x.penalty_points)]
\* the row when the league has no default scheme
ResultRow(no, e, x) == ResultWith(DEFAULT_F1_POINTS, no, e, x)

\* ResultEntryRead / _results_state: a row without its primary key and event
ItemOf(r) ==
    [driver_id |-> r.driver_id, finish_position |-> r.finish_position,
     status |-> r.status, bonus_points |-> r.bonus_points,
     penalty_points |-> r.penalty_points, total_points |-> r.total_points]
_results_state(rows) == [i \in DOMAIN rows |-> ItemOf(rows[i])]

\* select(Result).where(event_id == e).order_by(finish_position): the possible
\* row lists
SelectResults(rows, e) == SortedByPosition({r \in rows : r.event_id = e})

\* _build_response: sorted(results, key=finish_position) is stable, and the list
\* passed in is already ordered by finish_position
_build_response(rows) == _results_state(rows)

\* _sort_key of services/standings.py as one integer-comparable order
best_finish_rank(item) == IF item.best_finish = 0 THEN 1000000 ELSE item.best_finish
SortKeyLess(a, b) ==
    \/ a.points > b.points
    \/ a.points = b.points /\ a.wins > b.wins
    \/ a.points = b.points /\ a.wins = b.wins
          /\ best_finish_rank(a) < best_finish_rank(b)
    \/ a.points = b.points /\ a.wins = b.wins
          /\ best_finish_rank(a) = best_finish_rank(b)
          /\ NameRank(a.driver_id) < NameRank(b.driver_id)
SortKeyEq(a, b) == ~SortKeyLess(a, b) /\ ~SortKeyLess(b, a)

RECURSIVE SumPoints(_)
SumPoints(S) ==
    IF S = {} THEN 0
    ELSE LET r == CHOOSE x \in S : TRUE IN r.total_points + SumPoints(S \ {r})

MinPos(S) == CHOOSE m \in {r.finish_position : r \in S} :
                 \A r \in S : m <= r.finish_position

\* event_join with no season filter when the requested season is null
event_join_every_season(rows, evStatus, league, season) ==
    {r \in rows : /\ EventLeague(r.event_id) = league
                  /\ evStatus[r.event_id] = "COMPLETED"
                  /\ (season # NoSeason => EventSeason(r.event_id) = season)}

\* event_join of calculate_standings: the result rows that find an event under
\* the filters (league, status COMPLETED, season equal or both null)
event_join(rows, evStatus, league, season) ==
    {r \in rows : /\ EventLeague(r.event_id) = league
                  /\ evStatus[r.event_id] = "COMPLETED"
                  /\ EventSeason(r.event_id) = season}

\* the same calculation with inner joins: only drivers that have a joined row
calculate_standings_results_complete(rows, evStatus, league, season) ==
    LET Qual(d) == {r \in event_join(rows, evStatus, league, season) : r.driver_id = d}
        Item(d) == [driver_id |-> d, display_name |-> display_name(d),
                    points |-> SumPoints(Qual(d)),
                    wins |-> Cardinality({r \in Qual(d) : r.finish_position = 1}),
                    best_finish |-> IF Qual(d) = {} THEN 0 ELSE MinPos(Qual(d))]
        Items == {Item(d) : d \in {x \in Drivers : DriverLeague(x) = league /\ Qual(x) # {}}}
    IN  {s \in [1..Cardinality(Items) -> Items] :
            \A i, j \in 1..Cardinality(Items) :
                i < j => s[i] # s[j] /\ ~SortKeyLess(s[j], s[i])}

\* calculate_standings: one row per driver of the league, aggregated over the
\* results of COMPLETED events of the league and season; best_finish 0 is null.
\* The value is the set of lists the sort can return.
calculate_standings(rows, evStatus, league, season) ==
    LET Qual(d) == {r \in event_join(rows, evStatus, league, season) : r.driver_id = d}
        Item(d) == [driver_id |-> d, display_name |-> display_name(d),
                    points |-> SumPoints(Qual(d)),
                    wins |-> Cardinality({r \in Qual(d) : r.finish_position = 1}),
                    best_finish |-> IF Qual(d) = {} THEN 0 ELSE MinPos(Qual(d))]
        Items == {Item(d) : d \in {x \in Drivers : DriverLeague(x) = league}}
    IN  {s \in [1..Cardinality(Items) -> Items] :
            \A i, j \in 1..Cardinality(Items) :
                i < j => s[i] # s[j] /\ ~SortKeyLess(s[j], s[i])}

\* partial maps (dict / key-value store)
Put(m, k, v) == [x \in DOMAIN m \cup {k} |-> IF x = k THEN v ELSE m[x]]
Remove(m, k) == [x \in DOMAIN m \ {k} |-> m[x]]
EmptyMap == [x \in {} |-> 0]

dbVars == << results, eventStatus, auditLog, hist, eventSeason, driverNames, schemes >>
idemVars == << idemRedis, idemClient, idemMem >>
cacheVars == << cacheRedis, cacheClient, cacheMem >>
vars == << results, eventStatus, auditLog, tx, redisUp, idemRedis, cacheRedis,
           idemClient, cacheClient, idemMem, cacheMem, pc, cur, log, hist, used,
           eventSeason, driverNames, schemes, jobs >>

NoTx == [del |-> {}, ins |-> {}, snap |-> {}, status |-> FALSE, audit |-> {}]

\* arguments and locals of a handler; began, epoch, conc and via are history:
\* the number of responses sent when the handler started, the number of TTL
\* expiries when it claimed its key, whether another submission to the same
\* event was in flight during it, and the store that answered its cache read
\* nothing of any bound is used yet
Unused ==
    [submits |-> 0, reads |-> 0, flaps |-> 0, expiries |-> 0, dberrors |-> 0,
     renames |-> 0, edits |-> 0, schemeops |-> 0, corruptions |-> 0]

IdleCur ==
    [no |-> 0, kind |-> "none", event |-> "none", key |-> NoKey, entries |-> << >>,
     prev |-> "none", existing |-> << >>, hash |-> << >>, idem |-> "none",
     mutated |-> FALSE, season |-> NoSeason, payload |-> << >>, began |-> 0,
     epoch |-> 0, conc |-> FALSE, via |-> "none", points_map |-> << >>,
     league |-> "none", driver |-> "none", name |-> "none", status |-> "none",
     failed |-> {}, hit |-> FALSE]

\* an event that was completed by an earlier submission of PayloadAB
SeedRows == {ResultRow(0, "e1", PayloadAB[i]) : i \in DOMAIN PayloadAB}
SeedAudit ==
    {[entity_id |-> "e1", action |-> "results_submitted",
      before |-> [results |-> << >>, status |-> "SCHEDULED"],
      after |-> [results |-> _results_state(CHOOSE s \in SortedByPosition(SeedRows) : TRUE),
                 status |-> "COMPLETED"]]}
\* the cache entry read_standings stores for (L1, S1) while e1 holds these rows
SeedCacheKey == << "L1", "S1" >>
SeedPayload ==
    [league_id |-> "L1", season_id |-> "S1",
     items |-> CHOOSE items \in calculate_standings(
                   SeedRows, [e \in Events |-> IF e = "e1" THEN "COMPLETED" ELSE "SCHEDULED"],
                   "L1", "S1") : TRUE]

\* the processes have just started: no request is running and no idempotency
\* record exists; event e1 is either still scheduled or already has the results
\* of an earlier submission, and in that case an earlier standings read served
\* by p1 may have left its cache entry
Init ==
    /\ eventSeason = SeedSeasons
    /\ driverNames = SeedNames
    /\ schemes = {}
    /\ redisUp \in BOOLEAN
    /\ \E seeded \in BOOLEAN : \E cached \in {FALSE, seeded} :
          /\ results = IF seeded THEN SeedRows ELSE {}
          /\ eventStatus = [e \in Events |->
                               IF seeded /\ e = "e1" THEN "COMPLETED" ELSE "SCHEDULED"]
          /\ auditLog = IF seeded THEN SeedAudit ELSE {}
          /\ cacheClient = [p \in Procs |->
                               IF cached /\ p = "p1"
                               THEN (IF redisUp THEN "redis" ELSE "memory")
                               ELSE "unbuilt"]
          /\ cacheRedis = IF cached /\ redisUp
                          THEN Put(EmptyMap, SeedCacheKey, SeedPayload) ELSE EmptyMap
          /\ cacheMem = [p \in Procs |->
                            IF cached /\ ~redisUp /\ p = "p1"
                            THEN Put(EmptyMap, SeedCacheKey,
                                     [payload |-> SeedPayload, expired |-> FALSE])
                            ELSE EmptyMap]
    /\ hist = {[results |-> results, eventStatus |-> eventStatus]}
    /\ tx = [p \in Procs |-> NoTx]
    /\ idemRedis = EmptyMap
    /\ idemClient = [p \in Procs |-> "unbuilt"]
    /\ idemMem = [p \in Procs |-> EmptyMap]
    /\ pc = [p \in Procs |-> "idle"]
    /\ cur = [p \in Procs |-> IdleCur]
    /\ log = << >>
    /\ used = Unused
    /\ jobs = {}

\* the handler of p returns: the response is recorded and the process is free;
\* c holds the handler's arguments and locals
\* sent holds the messages the handler put on the job broker
ReplyWith(p, c, code, err, items, sent) ==
    /\ log' = Append(log,
         [no |-> c.no, proc |-> p, kind |-> c.kind, event |-> c.event,
          season |-> c.season, key |-> c.key, entries |-> c.entries,
          code |-> code, err |-> err, idem |-> c.idem, mutated |-> c.mutated,
          items |-> items, began |-> c.began, epoch |-> c.epoch, conc |-> c.conc,
          via |-> c.via, league |-> c.league, driver |-> c.driver, name |-> c.name,
          status |-> c.status, failed |-> c.failed, hit |-> c.hit,
          rows |-> {r \in results : r.event_id = c.event},
          quiet |-> /\ \A q \in Procs \ {p} : cur[q].kind # "submit"
                    /\ \A k \in (c.began + 1)..Len(log) : log[k].kind # "submit",
          fresh |-> c.kind = "read" /\
                    items \in calculate_standings(results, eventStatus, "L1", c.season)])
    /\ pc' = [pc EXCEPT ![p] = "idle"]
    /\ cur' = [cur EXCEPT ![p] = IdleCur]
    /\ jobs' = jobs \cup sent
Reply(p, c, code, err, items) == ReplyWith(p, c, code, err, items, {})
Respond(p, code, err, items) == Reply(p, cur[p], code, err, items)

\* __init__ of both services: the client is kept only if ping() succeeds
BuildClient(c) == IF c = "unbuilt" THEN (IF redisUp THEN "redis" ELSE "memory") ELSE c

(* -------------------- submit_results: validation ---------------------- *)
\* lines 188-258 of routes/results.py: load the event, check the role, validate
\* the entries, read the existing rows, fingerprint the payload, fetch the
\* idempotency service
Overlaps(q, e) == cur[q].kind = "submit" /\ cur[q].event = e

\* the same handler with the key claimed before the entries are validated
submit_results_claims_first(p, e, role, key, entries) ==
    LET drivers == {entries[i].driver_id : i \in DOMAIN entries}
        positions == {entries[i].finish_position : i \in DOMAIN entries}
        me == [IdleCur EXCEPT !.no = used.submits + 1, !.kind = "submit", !.event = e,
                              !.key = key, !.entries = entries, !.began = Len(log)]
        Reject(code, err) == Reply(p, me, code, err, << >>) /\ UNCHANGED idemClient
        sk == _build_key(e, key)
        RejectClaimed(code, err) ==
            /\ Reject(code, err)
            /\ IF key = NoKey THEN UNCHANGED << idemRedis, idemMem >>
               ELSE IF BuildClient(idemClient[p]) = "redis" /\ redisUp
               THEN /\ idemRedis' = IF sk \in DOMAIN idemRedis THEN idemRedis
                                     ELSE Put(idemRedis, sk, payload_hash(entries))
                    /\ UNCHANGED idemMem
               ELSE /\ idemMem' = [idemMem EXCEPT ![p] =
                                      IF sk \in DOMAIN @ /\ ~@[sk].expired THEN @
                                      ELSE Put(@, sk, [hash |-> payload_hash(entries),
                                                       expired |-> FALSE])]
                    /\ UNCHANGED idemRedis
        Quiet(A) == A /\ UNCHANGED << idemRedis, idemMem >>
    IN
    /\ pc[p] = "idle"
    /\ used.submits < MaxSubmits
    /\ used' = [used EXCEPT !.submits = @ + 1]
    /\ UNCHANGED << dbVars, tx, redisUp, cacheVars >>
    /\ IF e \notin Events THEN Quiet(Reject(404, "EVENT_NOT_FOUND"))
       ELSE IF role = 0 THEN Quiet(Reject(403, "NOT_A_MEMBER"))
       ELSE IF role < STEWARD THEN Quiet(Reject(403, "INSUFFICIENT_ROLE"))
       ELSE IF Cardinality(drivers) # Len(entries)
            THEN RejectClaimed(400, "DUPLICATE_DRIVER")
       ELSE IF Cardinality(positions) # Len(entries)
            THEN RejectClaimed(400, "DUPLICATE_POSITION")
       ELSE IF \E d \in drivers : DriverLeague(d) # EventLeague(e)
            THEN RejectClaimed(400, "MISSING_DRIVER")
       ELSE /\ UNCHANGED << idemRedis, idemMem >>
            /\ \E existing \in SelectResults(results, e), points_map \in _load_points_scheme(e) :
                /\ cur' = [q \in Procs |->
                             IF q = p
                             THEN [me EXCEPT !.prev = eventStatus[e], !.existing = existing,
                                             !.points_map = points_map,
                                             !.hash = payload_hash(entries),
                                             !.conc = \E o \in Procs \ {p} : Overlaps(o, e)]
                             ELSE [cur[q] EXCEPT !.conc = @ \/ Overlaps(q, e)]]
                /\ idemClient' = [idemClient EXCEPT ![p] = BuildClient(@)]
                /\ pc' = [pc EXCEPT ![p] = IF key # NoKey THEN "claim" ELSE "delete"]
                /\ UNCHANGED << log, jobs >>

\* the same handler with the finish positions checked before the drivers
submit_results_positions_first(p, e, role, key, entries) ==
    LET drivers == {entries[i].driver_id : i \in DOMAIN entries}
        positions == {entries[i].finish_position : i \in DOMAIN entries}
        me == [IdleCur EXCEPT !.no = used.submits + 1, !.kind = "submit", !.event = e,
                              !.key = key, !.entries = entries, !.began = Len(log)]
        Reject(code, err) == Reply(p, me, code, err, << >>) /\ UNCHANGED idemClient
    IN
    /\ pc[p] = "idle"
    /\ used.submits < MaxSubmits
    /\ used' = [used EXCEPT !.submits = @ + 1]
    /\ UNCHANGED << dbVars, tx, redisUp, idemRedis, idemMem, cacheVars >>
    /\ IF e \notin Events THEN Reject(404, "EVENT_NOT_FOUND")
       ELSE IF role = 0 THEN Reject(403, "NOT_A_MEMBER")
       ELSE IF role < STEWARD THEN Reject(403, "INSUFFICIENT_ROLE")
       ELSE IF Cardinality(positions) # Len(entries) THEN Reject(400, "DUPLICATE_POSITION")
       ELSE IF Cardinality(drivers) # Len(entries) THEN Reject(400, "DUPLICATE_DRIVER")
       ELSE IF \E d \in drivers : DriverLeague(d) # EventLeague(e)
            THEN Reject(400, "MISSING_DRIVER")
       ELSE \E existing \in SelectResults(results, e), points_map \in _load_points_scheme(e) :
            /\ cur' = [q \in Procs |->
                         IF q = p
                         THEN [me EXCEPT !.prev = eventStatus[e], !.existing = existing,
                                         !.points_map = points_map,
                                         !.hash = payload_hash(entries),
                                         !.conc = \E o \in Procs \ {p} : Overlaps(o, e)]
                         ELSE [cur[q] EXCEPT !.conc = @ \/ Overlaps(q, e)]]
            /\ idemClient' = [idemClient EXCEPT ![p] = BuildClient(@)]
            /\ pc' = [pc EXCEPT ![p] = IF key # NoKey THEN "claim" ELSE "delete"]
            /\ UNCHANGED << log, jobs >>

submit_results(p, e, role, key, entries) ==
    LET drivers == {entries[i].driver_id : i \in DOMAIN entries}
        positions == {entries[i].finish_position : i \in DOMAIN entries}
        me == [IdleCur EXCEPT !.no = used.submits + 1, !.kind = "submit", !.event = e,
                              !.key = key, !.entries = entries, !.began = Len(log)]
        Reject(code, err) == Reply(p, me, code, err, << >>) /\ UNCHANGED idemClient
    IN
    /\ pc[p] = "idle"
    /\ used.submits < MaxSubmits
    /\ used' = [used EXCEPT !.submits = @ + 1]
    /\ UNCHANGED << dbVars, tx, redisUp, idemRedis, idemMem, cacheVars >>
    /\ IF e \notin Events THEN Reject(404, "EVENT_NOT_FOUND")
       ELSE IF role = 0 THEN Reject(403, "NOT_A_MEMBER")
       ELSE IF role < STEWARD THEN Reject(403, "INSUFFICIENT_ROLE")
       ELSE IF Cardinality(drivers) # Len(entries) THEN Reject(400, "DUPLICATE_DRIVER")
       ELSE IF Cardinality(positions) # Len(entries) THEN Reject(400, "DUPLICATE_POSITION")
       ELSE IF \E d \in drivers : DriverLeague(d) # EventLeague(e)
            THEN Reject(400, "MISSING_DRIVER")
       ELSE \E existing \in SelectResults(results, e), points_map \in _load_points_scheme(e) :
            /\ cur' = [q \in Procs |->
                         IF q = p
                         THEN [me EXCEPT !.prev = eventStatus[e], !.existing = existing,
                                         !.points_map = points_map,
                                         !.hash = payload_hash(entries),
                                         !.conc = \E o \in Procs \ {p} : Overlaps(o, e)]
                         ELSE [cur[q] EXCEPT !.conc = @ \/ Overlaps(q, e)]]
            /\ idemClient' = [idemClient EXCEPT ![p] = BuildClient(@)]
            /\ pc' = [pc EXCEPT ![p] = IF key # NoKey THEN "claim" ELSE "delete"]
            /\ UNCHANGED << log, jobs >>

(* ----------------------- IdempotencyService --------------------------- *)
\* _claim_memory on the process-local store: the answer and the store after it
_claim_memory(mem, storage_key, hash) ==
    IF storage_key \notin DOMAIN mem \/ mem[storage_key].expired
    THEN [res |-> "claimed",
          mem |-> Put(mem, storage_key, [hash |-> hash, expired |-> FALSE])]
    ELSE IF mem[storage_key].hash = hash
    THEN [res |-> "duplicate", mem |-> mem]
    ELSE [res |-> "conflict", mem |-> mem]

\* what submit_results does with the answer of claim (lines 265-273)
AfterClaim(p, res) ==
    IF res = "duplicate"
    THEN Reply(p, [cur[p] EXCEPT !.idem = res, !.epoch = used.expiries], 201, "",
               _build_response(cur[p].existing))
    ELSE IF res = "conflict"
    THEN Reply(p, [cur[p] EXCEPT !.idem = res, !.epoch = used.expiries], 409,
               "IDEMPOTENCY_CONFLICT", << >>)
    ELSE /\ pc' = [pc EXCEPT ![p] = "delete"]
         /\ cur' = [cur EXCEPT ![p].idem = "claimed", ![p].epoch = used.expiries]
         /\ UNCHANGED << log, jobs >>

ClaimInMemory(p) ==
    LET r == _claim_memory(idemMem[p], _build_key(cur[p].event, cur[p].key), cur[p].hash)
    IN  /\ idemMem' = [idemMem EXCEPT ![p] = r.mem]
        /\ AfterClaim(p, r.res)

\* claim, up to and including SET NX of _claim_redis (lines 42-72)
claim(p) ==
    LET sk == _build_key(cur[p].event, cur[p].key) IN
    /\ pc[p] = "claim"
    /\ UNCHANGED << dbVars, tx, redisUp, idemClient, cacheVars, used >>
    /\ IF idemClient[p] # "redis" \/ ~redisUp
       THEN ClaimInMemory(p) /\ UNCHANGED idemRedis
       ELSE IF sk \notin DOMAIN idemRedis
       THEN /\ idemRedis' = Put(idemRedis, sk, cur[p].hash)
            /\ AfterClaim(p, "claimed")
            /\ UNCHANGED idemMem
       ELSE /\ pc' = [pc EXCEPT ![p] = "claim_get"]
            /\ UNCHANGED << idemRedis, idemMem, cur, log, jobs >>

\* the rest of _claim_redis after SET NX found a record (lines 74-82)
_claim_redis(p) ==
    LET sk == _build_key(cur[p].event, cur[p].key) IN
    /\ pc[p] = "claim_get"
    /\ UNCHANGED << dbVars, tx, redisUp, idemClient, idemRedis, cacheVars, used >>
    /\ IF ~redisUp
       THEN ClaimInMemory(p)
       ELSE /\ AfterClaim(p, IF sk \in DOMAIN idemRedis /\ idemRedis[sk] = cur[p].hash
                             THEN "duplicate" ELSE "conflict")
            /\ UNCHANGED idemMem

\* release (lines 48-56), called from the except branch of submit_results
release(p) ==
    LET sk == _build_key(cur[p].event, cur[p].key) IN
    /\ pc[p] = "release"
    /\ IF idemClient[p] = "redis"
       THEN /\ idemRedis' = IF redisUp THEN Remove(idemRedis, sk) ELSE idemRedis
            /\ UNCHANGED idemMem
       ELSE /\ idemMem' = [idemMem EXCEPT ![p] = Remove(@, sk)]
            /\ UNCHANGED idemRedis
    /\ Respond(p, 500, "INTERNAL", << >>)
    /\ UNCHANGED << dbVars, tx, redisUp, idemClient, cacheVars, used >>

(* --------------------- submit_results: mutation ----------------------- *)
LockedByOther(p, r) == \E q \in Procs \ {p} : r \in tx[q].del

\* a patching delete: only the rows of the drivers in the new entries go
delete_results_submitted_drivers(p) ==
    LET targets == {r \in results :
                       /\ r.event_id = cur[p].event
                       /\ \E n \in DOMAIN cur[p].entries :
                              cur[p].entries[n].driver_id = r.driver_id}
        free == {r \in targets : ~LockedByOther(p, r)}
    IN
    /\ pc[p] = "delete"
    /\ cur' = [cur EXCEPT ![p].mutated = TRUE]
    /\ tx' = [tx EXCEPT ![p].del = free, ![p].snap = targets \ free]
    /\ pc' = [pc EXCEPT ![p] = IF free = targets THEN "flush" ELSE "delete_wait"]
    /\ UNCHANGED << dbVars, redisUp, idemVars, cacheVars, log, used, jobs >>

\* session.execute(delete(Result).where(event_id == e)) (line 276): the rows
\* committed when the statement starts are its targets; a target another open
\* transaction has deleted makes the statement wait for that transaction
delete_results(p) ==
    LET targets == {r \in results : r.event_id = cur[p].event}
        free == {r \in targets : ~LockedByOther(p, r)}
    IN
    /\ pc[p] = "delete"
    /\ cur' = [cur EXCEPT ![p].mutated = TRUE]
    /\ tx' = [tx EXCEPT ![p].del = free, ![p].snap = targets \ free]
    /\ pc' = [pc EXCEPT ![p] = IF free = targets THEN "flush" ELSE "delete_wait"]
    /\ UNCHANGED << dbVars, redisUp, idemVars, cacheVars, log, used, jobs >>

\* the waiting DELETE resumes once the other transaction has ended: targets it
\* committed as deleted are skipped, rows it inserted are not seen
delete_resume(p) ==
    /\ pc[p] = "delete_wait"
    /\ \A r \in tx[p].snap : ~LockedByOther(p, r)
    /\ tx' = [tx EXCEPT ![p].del = @ \cup (tx[p].snap \cap results), ![p].snap = {}]
    /\ pc' = [pc EXCEPT ![p] = "flush"]
    /\ UNCHANGED << dbVars, redisUp, idemVars, cacheVars, cur, log, used, jobs >>

SameSlot(a, b) == a.event_id = b.event_id /\ a.driver_id = b.driver_id

\* lines 278-315 and the flush of the session: build the rows, set the event
\* COMPLETED, record the audit entry when the state changed; the flush sends
\* UPDATE events (only when the loaded status differs) and the INSERTs.
\* uq_results_event_driver: an INSERT waits for an open transaction holding the
\* same (event, driver) and fails when a committed row holds it.
flush(p) ==
    LET e == cur[p].event
        rows == {ResultWith(cur[p].points_map, cur[p].no, e, cur[p].entries[i]) :
                    i \in DOMAIN cur[p].entries}
        newRows == CHOOSE s \in SortedByPosition(rows) : TRUE
        needUpdate == cur[p].prev # "COMPLETED"
        before_state == [results |-> _results_state(cur[p].existing), status |-> cur[p].prev]
        after_state == [results |-> _results_state(newRows), status |-> "COMPLETED"]
        audit == IF before_state # after_state
                 THEN {[entity_id |-> e, action |-> "results_submitted",
                        before |-> before_state, after |-> after_state]}
                 ELSE {}
        held == {r \in results : r \notin tx[p].del /\ \E n \in rows : SameSlot(n, r)}
        waits == \/ needUpdate /\ \E q \in Procs \ {p} : tx[q].status /\ cur[q].event = e
                 \/ \E q \in Procs \ {p} : \E r \in tx[q].ins : \E n \in rows : SameSlot(n, r)
                 \/ \E r \in held : LockedByOther(p, r)
    IN
    /\ pc[p] = "flush"
    /\ ~waits
    /\ IF held # {}
       THEN /\ pc' = [pc EXCEPT ![p] = "rollback"]
            /\ UNCHANGED tx
       ELSE /\ pc' = [pc EXCEPT ![p] = "commit"]
            /\ tx' = [tx EXCEPT ![p].ins = rows, ![p].status = needUpdate, ![p].audit = audit]
    /\ UNCHANGED << dbVars, redisUp, idemVars, cacheVars, cur, log, used, jobs >>

\* session.commit() (line 317)
commit(p) ==
    /\ pc[p] = "commit"
    /\ results' = (results \ tx[p].del) \cup tx[p].ins
    /\ eventStatus' = IF tx[p].status
                      THEN [eventStatus EXCEPT ![cur[p].event] = "COMPLETED"]
                      ELSE eventStatus
    /\ auditLog' = auditLog \cup tx[p].audit
    /\ hist' = hist \cup {[results |-> results', eventStatus |-> eventStatus']}
    /\ tx' = [tx EXCEPT ![p] = NoTx]
    /\ pc' = [pc EXCEPT ![p] = "invalidate"]
    /\ UNCHANGED << redisUp, idemVars, cacheVars, cur, log, used,
                    eventSeason, driverNames, schemes, jobs >>

\* any statement of the try block (lines 275-317) raises
db_error(p) ==
    /\ pc[p] \in {"delete", "delete_wait", "flush", "commit"}
    /\ used.dberrors < MaxDbErrors
    /\ used' = [used EXCEPT !.dberrors = @ + 1]
    /\ pc' = [pc EXCEPT ![p] = "rollback"]
    /\ cur' = [cur EXCEPT ![p].mutated = TRUE]
    /\ UNCHANGED << dbVars, tx, redisUp, idemVars, cacheVars, log, jobs >>

\* except branch (lines 318-322): session.rollback(), then release when the key
\* was claimed
rollback(p) ==
    /\ pc[p] = "rollback"
    /\ tx' = [tx EXCEPT ![p] = NoTx]
    /\ IF cur[p].key # NoKey /\ cur[p].idem = "claimed"
       THEN pc' = [pc EXCEPT ![p] = "release"] /\ UNCHANGED << cur, log, jobs >>
       ELSE Respond(p, 500, "INTERNAL", << >>)
    /\ UNCHANGED << dbVars, redisUp, idemVars, cacheVars, used >>

(* --------------------------- StandingsCache --------------------------- *)
\* StandingsCache._build_key
CacheKey(league, season) == << league, season >>

\* lines 324-326: refresh the event, fetch the cache, invalidate (league, season)
invalidate(p) ==
    LET key == CacheKey(EventLeague(cur[p].event), EventSeason(cur[p].event))
        client == BuildClient(cacheClient[p])
    IN
    /\ pc[p] = "invalidate"
    /\ cacheClient' = [cacheClient EXCEPT ![p] = client]
    /\ cacheRedis' = IF client = "redis" /\ redisUp THEN Remove(cacheRedis, key)
                     ELSE cacheRedis
    /\ cacheMem' = [cacheMem EXCEPT ![p] = Remove(@, key)]
    /\ pc' = [pc EXCEPT ![p] = "respond"]
    /\ UNCHANGED << dbVars, tx, redisUp, idemVars, cur, log, used, jobs >>

\* one message on the broker; no is the request that sent it
Job(actor, args, no) == [actor |-> actor, args |-> args, no |-> no]
JobActors == {"recompute_standings", "announce_results"}

\* both sends in one try block: a failure of the first skips the second
_trigger_standings_jobs_single_try(e, failed, no) ==
    IF "recompute_standings" \in failed THEN {}
    ELSE {Job("recompute_standings", << EventLeague(e), EventSeason(e) >>, no)}
         \cup (IF "announce_results" \in failed THEN {}
               ELSE {Job("announce_results", << EventLeague(e), e >>, no)})

\* _trigger_standings_jobs: each send has its own try block, and an exception
\* of send is logged; the value is the set of messages that reach the broker
_trigger_standings_jobs(e, failed, no) ==
    (IF "recompute_standings" \in failed THEN {}
     ELSE {Job("recompute_standings", << EventLeague(e), EventSeason(e) >>, no)})
    \cup (IF "announce_results" \in failed THEN {}
          ELSE {Job("announce_results", << EventLeague(e), e >>, no)})

\* send() of the named actor is going to raise for the request of p
enqueue_error(p, actor) ==
    /\ pc[p] = "respond"
    /\ actor \notin cur[p].failed
    /\ cur' = [cur EXCEPT ![p].failed = @ \cup {actor}]
    /\ UNCHANGED << dbVars, tx, redisUp, idemVars, cacheVars, pc, log, used, jobs >>

\* lines 327-337: re-read the rows, trigger the jobs, build the response
respond(p) ==
    /\ pc[p] = "respond"
    /\ \E refreshed \in SelectResults(results, cur[p].event) :
           ReplyWith(p, cur[p], 201, "", _build_response(refreshed),
                     _trigger_standings_jobs(cur[p].event, cur[p].failed, cur[p].no))
    /\ UNCHANGED << dbVars, tx, redisUp, idemVars, cacheVars, used >>

(* --------------------------- read_standings --------------------------- *)
ReadLeague == "L1"
ReadSeasons == {"S1"}

\* _serialize_response / _deserialize_payload: league and season are carried in
\* the payload, a null season is written as "null"
_serialize_response(league, season, items) ==
    [league_id |-> league, season_id |-> IF season = NoSeason THEN "null" ELSE season,
     items |-> items]
\* stored text that json.loads rejects, and a JSON document without the
\* league_id that _deserialize_payload indexes
InvalidJson == [text |-> "not json"]
WrongShape == [items |-> << >>]
json_loads(raw) == IF raw = InvalidJson THEN << >> ELSE << raw >>
Deserializable(payload) == "league_id" \in DOMAIN payload
_deserialize_payload(payload) ==
    [league_id |-> payload.league_id,
     season_id |-> IF payload.season_id = "null" THEN NoSeason ELSE payload.season_id,
     items |-> payload.items]

\* a read that never uses the cached payload and always recalculates
read_standings_always_calculates(p, season) ==
    LET key == CacheKey(ReadLeague, season)
        client == BuildClient(cacheClient[p])
        me == [IdleCur EXCEPT !.no = used.reads + 1, !.kind = "read", !.season = season,
                              !.began = Len(log), !.via = client]
        mem == cacheMem[p]
        raw == << >>
    IN
    /\ pc[p] = "idle"
    /\ used.reads < MaxReads
    /\ used' = [used EXCEPT !.reads = @ + 1]
    /\ cacheClient' = [cacheClient EXCEPT ![p] = client]
    /\ cacheMem' = IF FALSE \/ (client # "redis" /\ key \in DOMAIN mem /\ mem[key].expired)
                   THEN [cacheMem EXCEPT ![p] = Remove(@, key)]
                   ELSE cacheMem
    /\ cacheRedis' = IF FALSE /\ client = "redis" /\ redisUp
                     THEN Remove(cacheRedis, key) ELSE cacheRedis
    /\ IF raw # << >>
       THEN IF Deserializable(raw[1])
            THEN Reply(p, [me EXCEPT !.hit = TRUE], 200, "",
                       _deserialize_payload(raw[1]).items)
            ELSE Reply(p, [me EXCEPT !.hit = TRUE], 500, "INTERNAL_SERVER_ERROR", << >>)
       ELSE /\ pc' = [pc EXCEPT ![p] = "calculate"]
            /\ cur' = [cur EXCEPT ![p] = me]
            /\ UNCHANGED << log, jobs >>
    /\ UNCHANGED << dbVars, tx, redisUp, idemVars >>

\* lines 119-131: resolve the season, fetch the cache, StandingsCache.get (a
\* payload json.loads rejects is invalidated and counts as a miss) and
\* _deserialize_payload, whose exceptions nothing catches
read_standings(p, season) ==
    LET key == CacheKey(ReadLeague, season)
        client == BuildClient(cacheClient[p])
        me == [IdleCur EXCEPT !.no = used.reads + 1, !.kind = "read", !.season = season,
                              !.began = Len(log), !.via = client]
        mem == cacheMem[p]
        raw_payload ==
               IF client = "redis"
               THEN (IF redisUp /\ key \in DOMAIN cacheRedis THEN << cacheRedis[key] >> ELSE << >>)
               ELSE (IF key \in DOMAIN mem /\ ~mem[key].expired THEN << mem[key].payload >> ELSE << >>)
        undecodable == raw_payload # << >> /\ json_loads(raw_payload[1]) = << >>
        raw == IF undecodable THEN << >> ELSE raw_payload
    IN
    /\ pc[p] = "idle"
    /\ used.reads < MaxReads
    /\ used' = [used EXCEPT !.reads = @ + 1]
    /\ cacheClient' = [cacheClient EXCEPT ![p] = client]
    /\ cacheMem' = IF undecodable \/ (client # "redis" /\ key \in DOMAIN mem /\ mem[key].expired)
                   THEN [cacheMem EXCEPT ![p] = Remove(@, key)]
                   ELSE cacheMem
    /\ cacheRedis' = IF undecodable /\ client = "redis" /\ redisUp
                     THEN Remove(cacheRedis, key) ELSE cacheRedis
    /\ IF raw # << >>
       THEN IF Deserializable(raw[1])
            THEN Reply(p, [me EXCEPT !.hit = TRUE], 200, "",
                       _deserialize_payload(raw[1]).items)
            ELSE Reply(p, [me EXCEPT !.hit = TRUE], 500, "INTERNAL_SERVER_ERROR", << >>)
       ELSE /\ pc' = [pc EXCEPT ![p] = "calculate"]
            /\ cur' = [cur EXCEPT ![p] = me]
            /\ UNCHANGED << log, jobs >>
    /\ UNCHANGED << dbVars, tx, redisUp, idemVars >>

\* a reader without transaction isolation: the statement sees the deletes of
\* open transactions but not yet their inserts
read_calculate_dirty(p) ==
    /\ pc[p] = "calculate"
    /\ \E items \in calculate_standings(results \ UNION {tx[q].del : q \in Procs},
                                        eventStatus, ReadLeague, cur[p].season) :
           cur' = [cur EXCEPT ![p].payload =
                      _serialize_response(ReadLeague, cur[p].season, items)]
    /\ pc' = [pc EXCEPT ![p] = "cache_set"]
    /\ UNCHANGED << dbVars, tx, redisUp, idemVars, cacheVars, log, used, jobs >>

\* lines 133-142: calculate_standings in one statement
read_calculate(p) ==
    /\ pc[p] = "calculate"
    /\ \E items \in calculate_standings(results, eventStatus, ReadLeague, cur[p].season) :
           cur' = [cur EXCEPT ![p].payload =
                      _serialize_response(ReadLeague, cur[p].season, items)]
    /\ pc' = [pc EXCEPT ![p] = "cache_set"]
    /\ UNCHANGED << dbVars, tx, redisUp, idemVars, cacheVars, log, used, jobs >>

\* lines 143-148: StandingsCache.set and the response
read_cache_set(p) ==
    LET key == CacheKey(ReadLeague, cur[p].season) IN
    /\ pc[p] = "cache_set"
    /\ IF cacheClient[p] = "redis" /\ redisUp
       THEN /\ cacheRedis' = Put(cacheRedis, key, cur[p].payload)
            /\ UNCHANGED cacheMem
       ELSE /\ cacheMem' = [cacheMem EXCEPT ![p] =
                               Put(@, key, [payload |-> cur[p].payload, expired |-> FALSE])]
            /\ UNCHANGED cacheRedis
    /\ Respond(p, 200, "", cur[p].payload.items)
    /\ UNCHANGED << dbVars, tx, redisUp, idemVars, cacheClient, used >>

(* ---------------------------- environment ----------------------------- *)
\* the shared store becomes unreachable or reachable again
redis_flap ==
    /\ used.flaps < MaxFlaps
    /\ used' = [used EXCEPT !.flaps = @ + 1]
    /\ redisUp' = ~redisUp
    /\ UNCHANGED << dbVars, tx, idemVars, cacheVars, pc, cur, log, jobs >>

\* ex=ttl_seconds of SET NX: the shared store drops the record
expire_idem_redis ==
    /\ used.expiries < MaxExpiries
    /\ used' = [used EXCEPT !.expiries = @ + 1]
    /\ \E k \in DOMAIN idemRedis : idemRedis' = Remove(idemRedis, k)
    /\ UNCHANGED << dbVars, tx, redisUp, idemClient, idemMem, cacheVars, pc, cur, log, jobs >>

\* time.time() passes expires_at of a record of the local store
expire_idem_memory(p) ==
    /\ used.expiries < MaxExpiries
    /\ used' = [used EXCEPT !.expiries = @ + 1]
    /\ \E k \in DOMAIN idemMem[p] :
          /\ ~idemMem[p][k].expired
          /\ idemMem' = [idemMem EXCEPT ![p][k].expired = TRUE]
    /\ UNCHANGED << dbVars, tx, redisUp, idemClient, idemRedis, cacheVars, pc, cur, log, jobs >>

\* setex ttl of the cache entry
expire_cache_redis ==
    /\ used.expiries < MaxExpiries
    /\ used' = [used EXCEPT !.expiries = @ + 1]
    /\ \E k \in DOMAIN cacheRedis : cacheRedis' = Remove(cacheRedis, k)
    /\ UNCHANGED << dbVars, tx, redisUp, idemVars, cacheClient, cacheMem, pc, cur, log, jobs >>

expire_cache_memory(p) ==
    /\ used.expiries < MaxExpiries
    /\ used' = [used EXCEPT !.expiries = @ + 1]
    /\ \E k \in DOMAIN cacheMem[p] :
          /\ ~cacheMem[p][k].expired
          /\ cacheMem' = [cacheMem EXCEPT ![p][k].expired = TRUE]
    /\ UNCHANGED << dbVars, tx, redisUp, idemVars, cacheClient, cacheRedis, pc, cur, log, jobs >>

\* the entry of the shared store is overwritten from outside the service
corrupt_cache_redis(bad) ==
    /\ used.corruptions < MaxCorruptions
    /\ used' = [used EXCEPT !.corruptions = @ + 1]
    /\ \E k \in DOMAIN cacheRedis : cacheRedis' = Put(cacheRedis, k, bad)
    /\ UNCHANGED << dbVars, tx, redisUp, idemVars, cacheClient, cacheMem, pc, cur, log, jobs >>

(* ------------------------- routes/drivers.py -------------------------- *)
\* display names a rename request may carry
RenameNames == {"Max", "max", " "}
\* str.strip() on those names
Strip(n) == IF n = " " THEN "" ELSE n

\* update_driver up to the SELECT that looks for another driver of the league
\* whose lower-cased name equals the new one
update_driver(p, d, role, name) ==
    LET me == [IdleCur EXCEPT !.no = used.renames + 1, !.kind = "rename", !.driver = d,
                              !.name = Strip(name), !.league = DriverLeague(d),
                              !.began = Len(log)]
        existing == {o \in Drivers \ {d} :
                        /\ DriverLeague(o) = DriverLeague(d)
                        /\ LowerName(display_name(o)) = LowerName(Strip(name))}
    IN
    /\ pc[p] = "idle"
    /\ used.renames < MaxRenames
    /\ used' = [used EXCEPT !.renames = @ + 1]
    /\ UNCHANGED << dbVars, tx, redisUp, idemVars, cacheVars >>
    /\ IF role = 0 THEN Reply(p, me, 403, "NOT_A_MEMBER", << >>)
       ELSE IF role < ADMIN THEN Reply(p, me, 403, "INSUFFICIENT_ROLE", << >>)
       ELSE IF Strip(name) = "" THEN Reply(p, me, 400, "INVALID_NAME", << >>)
       ELSE IF existing # {} THEN Reply(p, me, 409, "DUPLICATE_DRIVER", << >>)
       ELSE /\ pc' = [pc EXCEPT ![p] = "rename_commit"]
            /\ cur' = [cur EXCEPT ![p] = me]
            /\ UNCHANGED << log, jobs >>

\* session.commit() of update_driver: the UPDATE is checked against
\* uq_driver_name_per_league, which compares display_name exactly
update_driver_commit(p) ==
    /\ pc[p] = "rename_commit"
    /\ IF \E o \in Drivers \ {cur[p].driver} :
             /\ DriverLeague(o) = cur[p].league
             /\ display_name(o) = cur[p].name
       THEN /\ Respond(p, 500, "IntegrityError", << >>)
            /\ UNCHANGED driverNames
       ELSE /\ driverNames' = [driverNames EXCEPT ![cur[p].driver] = cur[p].name]
            /\ Respond(p, 200, "", << >>)
    /\ UNCHANGED << results, eventStatus, auditLog, hist, eventSeason, schemes, tx,
                    redisUp, idemVars, cacheVars, used >>

(* -------------------------- routes/points.py --------------------------- *)
\* primary keys the database hands to new schemes, and the league of a season
NewSchemeIds == {"ps6", "ps7"}
SeasonLeague(season_id) == "L1"

\* PointsSchemeCreate: season_id, is_default and rules (<< >> is "no rules")
SchemeCreate(season_id, is_default, rules) ==
    [season_id |-> season_id, is_default |-> is_default, rules |-> rules]
SchemeCreates ==
    {SchemeCreate("S1", TRUE, << >>), SchemeCreate(NoSeason, TRUE, (1 :> 9)),
     SchemeCreate("S1", FALSE, (1 :> 9))}
\* PointsSchemeUpdate with exclude_unset: is_default is "true", "false" or
\* Unset, and rules << >> stands for a request without rules
SchemeUpdate(season_id, is_default, rules) ==
    [season_id |-> season_id, is_default |-> is_default, rules |-> rules]
SchemeUpdates ==
    {SchemeUpdate(Unset, "true", << >>), SchemeUpdate(Unset, "false", << >>),
     SchemeUpdate(NoSeason, Unset, << >>), SchemeUpdate("S1", Unset, << >>),
     SchemeUpdate(Unset, Unset, (1 :> 8))}

\* _validate_rules: no rules means the built-in table
_validate_rules(rules) == IF rules = << >> THEN DEFAULT_F1_POINTS ELSE rules

\* UPDATE points_schemes SET is_default = false WHERE league, season scope
\* and id <> the given one
ClearDefaults(rows, league_id, season_id, id) ==
    {IF x.league_id = league_id /\ x.season_id = season_id /\ x.id # id
     THEN [x EXCEPT !.is_default = FALSE] ELSE x : x \in rows}

\* create_points_scheme, one transaction
create_points_scheme(p, league_id, role, payload) ==
    LET me == [IdleCur EXCEPT !.no = used.schemeops + 1, !.kind = "scheme_create",
                              !.league = league_id, !.payload = payload,
                              !.began = Len(log)]
        id == CHOOSE x \in NewSchemeIds : x \notin {y.id : y \in schemes}
        scheme == [id |-> id, league_id |-> league_id, season_id |-> payload.season_id,
                   is_default |-> payload.is_default,
                   rules |-> _validate_rules(payload.rules)]
    IN
    /\ pc[p] = "idle"
    /\ used.schemeops < MaxSchemeOps
    /\ \E x \in NewSchemeIds : x \notin {y.id : y \in schemes}
    /\ used' = [used EXCEPT !.schemeops = @ + 1]
    /\ IF role = 0
       THEN Reply(p, me, 403, "NOT_A_MEMBER", << >>) /\ UNCHANGED schemes
       ELSE IF role < ADMIN
       THEN Reply(p, me, 403, "INSUFFICIENT_ROLE", << >>) /\ UNCHANGED schemes
       ELSE IF payload.season_id # NoSeason /\ SeasonLeague(payload.season_id) # league_id
       THEN Reply(p, me, 400, "INVALID_SEASON", << >>) /\ UNCHANGED schemes
       ELSE /\ schemes' = IF scheme.is_default
                          THEN ClearDefaults(schemes, league_id, scheme.season_id, id)
                                  \cup {scheme}
                          ELSE schemes \cup {scheme}
            /\ Reply(p, me, 201, "", << >>)
    /\ UNCHANGED << results, eventStatus, auditLog, hist, eventSeason, driverNames, tx,
                    redisUp, idemVars, cacheVars >>

\* update_points_scheme, one transaction: the season and the rules are set
\* first, the default flag is handled in the scope the scheme then has
update_points_scheme(p, scheme_id, role, payload) ==
    LET me == [IdleCur EXCEPT !.no = used.schemeops + 1, !.kind = "scheme_update",
                              !.payload = payload, !.began = Len(log)]
        scheme == CHOOSE x \in schemes : x.id = scheme_id
        season_id == IF payload.season_id # Unset THEN payload.season_id
                     ELSE scheme.season_id
        rules == IF payload.rules # << >> THEN _validate_rules(payload.rules)
                 ELSE scheme.rules
        moved == [scheme EXCEPT !.season_id = season_id, !.rules = rules]
        others == schemes \ {scheme}
        other_defaults == {x \in others : /\ x.league_id = scheme.league_id
                                          /\ x.season_id = season_id
                                          /\ x.is_default}
    IN
    /\ pc[p] = "idle"
    /\ used.schemeops < MaxSchemeOps
    /\ used' = [used EXCEPT !.schemeops = @ + 1]
    /\ IF scheme_id \notin {x.id : x \in schemes}
       THEN Reply(p, me, 404, "POINTS_SCHEME_NOT_FOUND", << >>) /\ UNCHANGED schemes
       ELSE IF role = 0
       THEN Reply(p, me, 403, "NOT_A_MEMBER", << >>) /\ UNCHANGED schemes
       ELSE IF role < ADMIN
       THEN Reply(p, me, 403, "INSUFFICIENT_ROLE", << >>) /\ UNCHANGED schemes
       ELSE IF payload.season_id \notin {Unset, NoSeason}
               /\ SeasonLeague(payload.season_id) # scheme.league_id
       THEN Reply(p, me, 400, "INVALID_SEASON", << >>) /\ UNCHANGED schemes
       ELSE IF payload.is_default = "false" /\ other_defaults = {}
       THEN Reply(p, me, 400, "MISSING_DEFAULT_SCHEME", << >>) /\ UNCHANGED schemes
       ELSE /\ schemes' =
                 IF payload.is_default = "true"
                 THEN ClearDefaults(others, scheme.league_id, season_id, scheme_id)
                         \cup {[moved EXCEPT !.is_default = TRUE]}
                 ELSE IF payload.is_default = "false"
                 THEN others \cup {[moved EXCEPT !.is_default = FALSE]}
                 ELSE others \cup {moved}
            /\ Reply(p, me, 200, "", << >>)
    /\ UNCHANGED << results, eventStatus, auditLog, hist, eventSeason, driverNames, tx,
                    redisUp, idemVars, cacheVars >>

\* delete_points_scheme, one transaction
delete_points_scheme(p, scheme_id, role) ==
    LET me == [IdleCur EXCEPT !.no = used.schemeops + 1, !.kind = "scheme_delete",
                              !.began = Len(log)]
        scheme == CHOOSE x \in schemes : x.id = scheme_id
        related_events == {e \in DOMAIN eventSeason :
                              scheme.season_id # NoSeason
                                 /\ eventSeason[e] = scheme.season_id}
        other_scheme_exists == \E x \in schemes : x.league_id = scheme.league_id
                                                     /\ x.id # scheme_id
    IN
    /\ pc[p] = "idle"
    /\ used.schemeops < MaxSchemeOps
    /\ used' = [used EXCEPT !.schemeops = @ + 1]
    /\ IF scheme_id \notin {x.id : x \in schemes}
       THEN Reply(p, me, 404, "POINTS_SCHEME_NOT_FOUND", << >>) /\ UNCHANGED schemes
       ELSE IF role = 0
       THEN Reply(p, me, 403, "NOT_A_MEMBER", << >>) /\ UNCHANGED schemes
       ELSE IF role < ADMIN
       THEN Reply(p, me, 403, "INSUFFICIENT_ROLE", << >>) /\ UNCHANGED schemes
       ELSE IF scheme.is_default /\ related_events # {}
       THEN Reply(p, me, 400, "SCHEME_IN_USE", << >>) /\ UNCHANGED schemes
       ELSE IF scheme.is_default /\ ~other_scheme_exists
       THEN Reply(p, me, 400, "MISSING_DEFAULT_SCHEME", << >>) /\ UNCHANGED schemes
       ELSE /\ schemes' = schemes \ {scheme}
            /\ Reply(p, me, 204, "", << >>)
    /\ UNCHANGED << results, eventStatus, auditLog, hist, eventSeason, driverNames, tx,
                    redisUp, idemVars, cacheVars >>

(* -------------------------- routes/events.py --------------------------- *)
\* EventUpdate with exclude_unset: the fields a PATCH carries (Unset marks a
\* field the request does not carry); name stands for any of name, track and
\* start_time
EventUpdate(name, season_id, status) ==
    [name |-> name, season_id |-> season_id, status |-> status]
UpdatePayloads ==
    {EventUpdate(FALSE, Unset, "COMPLETED"), EventUpdate(FALSE, Unset, "SCHEDULED"),
     EventUpdate(FALSE, Unset, "CANCELED"), EventUpdate(FALSE, "S2", Unset),
     EventUpdate(TRUE, Unset, Unset)}

\* the row lock an open submission holds on the event after its UPDATE
EventLocked(p, e) == \E q \in Procs \ {p} : tx[q].status /\ cur[q].event = e

\* update_event up to session.commit(): session.get loads the event, and every
\* check is made on the loaded status
update_event(p, e, role, payload) ==
    LET me == [IdleCur EXCEPT !.no = used.edits + 1, !.kind = "update", !.event = e,
                              !.payload = payload, !.began = Len(log)]
        is_completed == eventStatus[e] = "COMPLETED"
    IN
    /\ pc[p] = "idle"
    /\ used.edits < MaxEdits
    /\ used' = [used EXCEPT !.edits = @ + 1]
    /\ UNCHANGED << dbVars, tx, redisUp, idemVars, cacheVars >>
    /\ IF e \notin Events THEN Reply(p, me, 404, "EVENT_NOT_FOUND", << >>)
       ELSE IF role = 0 THEN Reply(p, me, 403, "NOT_A_MEMBER", << >>)
       ELSE IF role < ADMIN THEN Reply(p, me, 403, "INSUFFICIENT_ROLE", << >>)
       ELSE IF payload.name /\ is_completed
            THEN Reply(p, me, 400, "EVENT_COMPLETED", << >>)
       ELSE IF payload.status # Unset /\ is_completed /\ payload.status # "COMPLETED"
            THEN Reply(p, me, 400, "EVENT_COMPLETED", << >>)
       ELSE /\ pc' = [pc EXCEPT ![p] = "update_commit"]
            /\ cur' = [cur EXCEPT ![p] = [me EXCEPT !.prev = eventStatus[e],
                                                    !.season = EventSeason(e)]]
            /\ UNCHANGED << log, jobs >>

\* session.commit() of update_event: the UPDATE carries the attributes whose
\* value differs from the loaded one and waits for the row lock
update_event_commit(p) ==
    LET e == cur[p].event
        new_status == IF cur[p].payload.status # Unset
                      THEN cur[p].payload.status ELSE cur[p].prev
        season_id == IF cur[p].payload.season_id # Unset
                     THEN cur[p].payload.season_id ELSE cur[p].season
        changed == new_status # cur[p].prev \/ season_id # cur[p].season
    IN
    /\ pc[p] = "update_commit"
    /\ changed => ~EventLocked(p, e)
    /\ eventStatus' = IF new_status # cur[p].prev
                      THEN [eventStatus EXCEPT ![e] = new_status] ELSE eventStatus
    /\ eventSeason' = IF season_id # cur[p].season
                      THEN [eventSeason EXCEPT ![e] = season_id] ELSE eventSeason
    /\ hist' = hist \cup {[results |-> results, eventStatus |-> eventStatus']}
    /\ Respond(p, 200, "", << >>)
    /\ UNCHANGED << results, auditLog, driverNames, schemes, tx, redisUp, idemVars,
                    cacheVars, used >>

\* cancel_event up to session.commit()
cancel_event(p, e, role) ==
    LET me == [IdleCur EXCEPT !.no = used.edits + 1, !.kind = "cancel", !.event = e,
                              !.began = Len(log)]
    IN
    /\ pc[p] = "idle"
    /\ used.edits < MaxEdits
    /\ used' = [used EXCEPT !.edits = @ + 1]
    /\ UNCHANGED << dbVars, tx, redisUp, idemVars, cacheVars >>
    /\ IF e \notin Events THEN Reply(p, me, 404, "EVENT_NOT_FOUND", << >>)
       ELSE IF role = 0 THEN Reply(p, me, 403, "NOT_A_MEMBER", << >>)
       ELSE IF role < ADMIN THEN Reply(p, me, 403, "INSUFFICIENT_ROLE", << >>)
       ELSE IF eventStatus[e] = "COMPLETED"
            THEN Reply(p, me, 400, "EVENT_COMPLETED", << >>)
       ELSE /\ pc' = [pc EXCEPT ![p] = "cancel_commit"]
            /\ cur' = [cur EXCEPT ![p] = [me EXCEPT !.prev = eventStatus[e]]]
            /\ UNCHANGED << log, jobs >>

\* session.commit() of cancel_event
cancel_event_commit(p) ==
    LET e == cur[p].event IN
    /\ pc[p] = "cancel_commit"
    /\ cur[p].prev # "CANCELED" => ~EventLocked(p, e)
    /\ eventStatus' = IF cur[p].prev # "CANCELED"
                      THEN [eventStatus EXCEPT ![e] = "CANCELED"] ELSE eventStatus
    /\ hist' = hist \cup {[results |-> results, eventStatus |-> eventStatus']}
    /\ Respond(p, 204, "", << >>)
    /\ UNCHANGED << results, auditLog, eventSeason, driverNames, schemes, tx, redisUp,
                    idemVars, cacheVars, used >>

(* ------------------- services/standings.py, applied ------------------- *)
\* calculate_standings is called for a league and a season (NoSeason is
\* season_id=None) on the committed data and its list is returned
calculate(p, league, season) ==
    LET me == [IdleCur EXCEPT !.no = used.reads + 1, !.kind = "calculate",
                              !.league = league, !.season = season,
                              !.began = Len(log)]
    IN
    /\ pc[p] = "idle"
    /\ used.reads < MaxReads
    /\ used' = [used EXCEPT !.reads = @ + 1]
    /\ \E items \in calculate_standings(results, eventStatus, league, season) :
           Reply(p, me, 200, "", items)
    /\ UNCHANGED << dbVars, tx, redisUp, idemVars, cacheVars >>

(* --------------------------- specifications --------------------------- *)
SubmitEvents == {"e1", "e2", UnknownEvent}
SubmitKeys == {NoKey, "k1", "K1"}
SubmitPayloads == ValidPayloads \cup InvalidPayloads \cup {PayloadABdnf}

Mutation(p) ==
    \/ delete_results(p)
    \/ delete_resume(p)
    \/ flush(p)
    \/ commit(p)
    \/ rollback(p)
    \/ invalidate(p)
    \/ respond(p)

\* the whole system
Next ==
    \/ \E p \in Procs, e \in SubmitEvents, role \in Roles, key \in SubmitKeys,
          entries \in SubmitPayloads : submit_results(p, e, role, key, entries)
    \/ \E p \in Procs : claim(p)
    \/ \E p \in Procs : _claim_redis(p)
    \/ \E p \in Procs : Mutation(p)
    \/ \E p \in Procs : db_error(p)
    \/ \E p \in Procs : release(p)
    \/ \E p \in Procs, season \in ReadSeasons : read_standings(p, season)
    \/ \E p \in Procs : read_calculate(p)
    \/ \E p \in Procs : read_cache_set(p)
    \/ redis_flap
    \/ expire_idem_redis
    \/ \E p \in Procs : expire_idem_memory(p)
    \/ expire_cache_redis
    \/ \E p \in Procs : expire_cache_memory(p)

Spec == Init /\ [][Next]_vars

\* concurrent writers: submissions without a key to both events
NextWriters ==
    \/ \E p \in Procs, e \in Events, entries \in ValidPayloads :
          submit_results(p, e, STEWARD, NoKey, entries)
    \/ \E p \in Procs : Mutation(p)

SpecWriters == Init /\ [][NextWriters]_vars

\* idempotent retries: keyed submissions to one event, with persistence
\* failures, an unreliable shared store and TTL expiry
NextRetries ==
    \/ \E p \in Procs, entries \in {PayloadAB, PayloadA} :
          submit_results(p, "e1", STEWARD, "k1", entries)
    \/ \E p \in Procs : claim(p)
    \/ \E p \in Procs : _claim_redis(p)
    \/ \E p \in Procs : Mutation(p)
    \/ \E p \in Procs : db_error(p)
    \/ \E p \in Procs : release(p)
    \/ redis_flap
    \/ expire_idem_redis
    \/ \E p \in Procs : expire_idem_memory(p)

SpecRetries == Init /\ [][NextRetries]_vars

\* the steps of a submission that no other writer delays
MutationAlone(p) ==
    \/ delete_results(p)
    \/ flush(p)
    \/ commit(p)
    \/ rollback(p)
    \/ invalidate(p)
    \/ respond(p)

\* one reader beside one writer: standings reads served by process p1 while
\* process p2 serves submissions without a key, with persistence failures
NextReaders ==
    \/ \E entries \in {PayloadAB, PayloadA} :
          submit_results("p2", "e1", STEWARD, NoKey, entries)
    \/ MutationAlone("p2")
    \/ db_error("p2")
    \/ \E season \in ReadSeasons : read_standings("p1", season)
    \/ read_calculate("p1")
    \/ read_cache_set("p1")

SpecReaders == Init /\ [][NextReaders]_vars

\* every kind of request: a request rejected by the first checks is sent with
\* one representative of the inputs the handler never looks at
RequestInputs ==
    {x \in SubmitEvents \X Roles \X {NoKey, "k1"} \X
           ({PayloadAB, PayloadA} \cup InvalidPayloads) :
        /\ x[1] # "e2"
        /\ x[1] = UnknownEvent => x[2] = STEWARD /\ x[3] = "k1" /\ x[4] = PayloadDupBoth
        /\ x[2] < STEWARD => x[3] = "k1" /\ x[4] = PayloadDupBoth}

NextRequests ==
    \/ \E p \in Procs, x \in RequestInputs : submit_results(p, x[1], x[2], x[3], x[4])
    \/ \E p \in Procs : claim(p)
    \/ \E p \in Procs : _claim_redis(p)
    \/ \E p \in Procs : Mutation(p)
    \/ \E p \in Procs : release(p)

SpecRequests == Init /\ [][NextRequests]_vars

\* scoring: one process serves submissions with bonus and penalty points while
\* the league has any combination of points schemes and event e1 belongs to
\* season S1 or S2
InitScoring ==
    /\ eventSeason \in {SeedSeasons, [SeedSeasons EXCEPT !["e1"] = "S2"]}
    /\ driverNames = SeedNames
    /\ schemes \in SchemeConfigs
    /\ redisUp = TRUE
    /\ results = {}
    /\ eventStatus = [e \in Events |-> "SCHEDULED"]
    /\ auditLog = {}
    /\ cacheClient = [p \in Procs |-> "unbuilt"]
    /\ cacheRedis = EmptyMap
    /\ cacheMem = [p \in Procs |-> EmptyMap]
    /\ hist = {[results |-> results, eventStatus |-> eventStatus]}
    /\ tx = [p \in Procs |-> NoTx]
    /\ idemRedis = EmptyMap
    /\ idemClient = [p \in Procs |-> "unbuilt"]
    /\ idemMem = [p \in Procs |-> EmptyMap]
    /\ pc = [p \in Procs |-> "idle"]
    /\ cur = [p \in Procs |-> IdleCur]
    /\ log = << >>
    /\ used = Unused
    /\ jobs = {}

NextScoring ==
    \/ \E e \in Events, entries \in ScoringPayloads :
          submit_results("p1", e, STEWARD, NoKey, entries)
    \/ MutationAlone("p1")
    \/ db_error("p1")

SpecScoring == InitScoring /\ [][NextScoring]_vars

\* The drivers of one league are renamed by two server processes.
NextDrivers ==
    \/ \E p \in Procs, d \in {"d1", "d2"}, role \in {STEWARD, ADMIN}, name \in RenameNames :
          update_driver(p, d, role, name)
    \/ \E p \in Procs : update_driver_commit(p)
SpecDrivers == Init /\ [][NextDrivers]_vars

\* calculate_standings as a function of the stored data: the store holds any
\* combination of event statuses and seasons, and for each event the rows of
\* one accepted submission or none.
StandingsEvents == Events \cup {OtherEvent}
StoredPayloads(e) ==
    CASE e = "e1" -> {<< >>, PayloadAB, PayloadA, PayloadPenalty}
      [] e = "e2" -> {<< >>, PayloadB, PayloadAB}
      [] OTHER -> {<< >>, PayloadC}
InitStandings ==
    /\ eventSeason \in {f \in [StandingsEvents -> {"S1", "S2", NoSeason}] :
                           f["e2"] # "S2" /\ f[OtherEvent] = NoSeason}
    /\ eventStatus \in {f \in [StandingsEvents -> {"SCHEDULED", "COMPLETED", "CANCELED"}] :
                           f[OtherEvent] # "CANCELED"}
    /\ \E stored \in [StandingsEvents -> UNION {StoredPayloads(e) : e \in StandingsEvents}] :
          /\ \A e \in StandingsEvents : stored[e] \in StoredPayloads(e)
          /\ results = UNION {{ResultRow(0, e, stored[e][i]) : i \in DOMAIN stored[e]} :
                                e \in StandingsEvents}
    /\ driverNames = SeedNames
    /\ schemes = {}
    /\ redisUp = TRUE
    /\ auditLog = {}
    /\ cacheClient = [p \in Procs |-> "unbuilt"]
    /\ cacheRedis = EmptyMap
    /\ cacheMem = [p \in Procs |-> EmptyMap]
    /\ hist = {[results |-> results, eventStatus |-> eventStatus]}
    /\ tx = [p \in Procs |-> NoTx]
    /\ idemRedis = EmptyMap
    /\ idemClient = [p \in Procs |-> "unbuilt"]
    /\ idemMem = [p \in Procs |-> EmptyMap]
    /\ pc = [p \in Procs |-> "idle"]
    /\ cur = [p \in Procs |-> IdleCur]
    /\ log = << >>
    /\ used = Unused
    /\ jobs = {}
NextStandings ==
    \E league \in {"L1", "L2"}, season \in {"S1", "S2", NoSeason} :
        calculate("p1", league, season)
SpecStandings == InitStandings /\ [][NextStandings]_vars

\* One process takes results submissions for event e1 while the other takes
\* event updates and cancellations.
NextEvents ==
    \/ \E entries \in {PayloadAB, PayloadA} :
          submit_results("p1", "e1", STEWARD, NoKey, entries)
    \/ MutationAlone("p1")
    \/ db_error("p1")
    \/ \E e \in {"e1", UnknownEvent}, role \in {STEWARD, ADMIN}, payload \in UpdatePayloads :
          update_event("p2", e, role, payload)
    \/ update_event_commit("p2")
    \/ \E e \in {"e1", UnknownEvent}, role \in {STEWARD, ADMIN} : cancel_event("p2", e, role)
    \/ cancel_event_commit("p2")
SpecEvents == Init /\ [][NextEvents]_vars

\* Results submissions of one process while the shared store changes its
\* availability and send() of either actor raises.
NextJobs ==
    \/ \E entries \in {PayloadAB, PayloadA} :
          submit_results("p1", "e1", STEWARD, NoKey, entries)
    \/ MutationAlone("p1")
    \/ db_error("p1")
    \/ \E actor \in JobActors : enqueue_error("p1", actor)
    \/ redis_flap
SpecJobs == Init /\ [][NextJobs]_vars

\* Standings reads of one process while the other takes event updates; no
\* results are submitted.
NextSeasons ==
    \/ \E season \in {"S1", "S2"} : read_standings("p1", season)
    \/ read_calculate("p1")
    \/ read_cache_set("p1")
    \/ \E payload \in UpdatePayloads : update_event("p2", "e1", ADMIN, payload)
    \/ update_event_commit("p2")
SpecSeasons == Init /\ [][NextSeasons]_vars

\* Standings reads of one process while the shared store comes and goes, the
\* cache entries expire and the other process takes event updates.
\* the event updates that change the standings of a season
CacheUpdates == {EventUpdate(FALSE, "S2", Unset), EventUpdate(FALSE, Unset, "CANCELED")}
NextCache ==
    \/ \E season \in ReadSeasons : read_standings("p1", season)
    \/ read_calculate("p1")
    \/ read_cache_set("p1")
    \/ \E payload \in CacheUpdates : update_event("p2", "e1", ADMIN, payload)
    \/ update_event_commit("p2")
    \/ redis_flap
    \/ expire_cache_redis
    \/ expire_cache_memory("p1")
SpecCache == Init /\ [][NextCache]_vars

\* Standings reads of both processes while the entry of the shared store is
\* damaged.
NextCorrupt ==
    \/ \E p \in Procs, season \in ReadSeasons : read_standings(p, season)
    \/ \E p \in Procs : read_calculate(p)
    \/ \E p \in Procs : read_cache_set(p)
    \/ \E bad \in {InvalidJson, WrongShape} : corrupt_cache_redis(bad)
    \/ redis_flap
SpecCorrupt == Init /\ [][NextCorrupt]_vars

\* Points schemes of the leagues are created, changed and deleted, starting
\* from any of the scheme tables with at most one default per scope.
SchemeIds == {"ps1", "ps2", "ps3", "ps6", "ps9"}
NextSchemes ==
    \/ \E role \in {STEWARD, ADMIN}, payload \in SchemeCreates :
          create_points_scheme("p1", "L1", role, payload)
    \/ \E id \in SchemeIds, role \in {STEWARD, ADMIN}, payload \in SchemeUpdates :
          update_points_scheme("p1", id, role, payload)
    \/ \E id \in SchemeIds, role \in {STEWARD, ADMIN} :
          delete_points_scheme("p1", id, role)
SpecSchemes == InitScoring /\ [][NextSchemes]_vars

(* ------------------------------ claims -------------------------------- *)
ContentOf(rows) == {ItemOf(r) : r \in rows}
RowsOf(e) == {r \in results : r.event_id = e}
\* the rows a submission of these entries writes, without primary key
Submitted(entries) == {ItemOf(ResultRow(0, "e1", entries[i])) : i \in DOMAIN entries}

\* responses i and j answer submissions that carry one Idempotency-Key for one
\* event and claimed with no TTL expiry in between
SameKey(i, j) ==
    /\ i # j
    /\ log[i].kind = "submit" /\ log[j].kind = "submit"
    /\ log[i].event = log[j].event
    /\ log[i].key # NoKey /\ Lower(log[i].key) = Lower(log[j].key)
    /\ log[i].epoch = log[j].epoch
\* request j was sent by the same process after response i had been returned
RetryOf(i, j) == SameKey(i, j) /\ log[i].proc = log[j].proc /\ log[j].began >= i
\* the shared store has answered every call so far
StoreHealthy == redisUp /\ used.flaps = 0

\* C1: with the shared store answering every call, when a submission claimed
\* its key and was accepted, every other submission of the same entries with
\* the same key to the same event that did not fail is answered 201 with
\* identical items and without executing the replace-all mutation, and the
\* event then holds one row per submitted driver
C1_IdempotentReplay ==
    StoreHealthy =>
        \A i, j \in DOMAIN log :
            /\ SameKey(i, j)
            /\ log[i].entries = log[j].entries
            /\ log[i].idem = "claimed" /\ log[i].code = 201
            /\ log[j].code # 500
            => /\ log[j].code = 201
               /\ log[j].items = log[i].items
               /\ ~log[j].mutated
               /\ {r.driver_id : r \in log[i].rows} =
                      {log[i].entries[n].driver_id : n \in DOMAIN log[i].entries}
               /\ Cardinality(log[i].rows) = Len(log[i].entries)

\* C2: a retry by the same process that reuses the key of an accepted
\* submission with entries of a different fingerprint, within the TTL, is
\* answered 409 IDEMPOTENCY_CONFLICT and mutates nothing
C2_ConflictDetection ==
    \A i, j \in DOMAIN log :
        /\ RetryOf(i, j)
        /\ log[i].idem = "claimed" /\ log[i].code = 201
        /\ payload_hash(log[i].entries) # payload_hash(log[j].entries)
        => /\ log[j].code = 409 /\ log[j].err = "IDEMPOTENCY_CONFLICT"
           /\ ~log[j].mutated
           /\ log[j].rows = log[i].rows

\* C3: among the submissions one process served for one event and one key
\* within the TTL, none of them released, at most one obtained claimed
C3_AtMostOneClaimed ==
    \A i, j \in DOMAIN log :
        /\ SameKey(i, j) /\ log[i].proc = log[j].proc
        /\ log[i].idem = "claimed" /\ log[i].code = 201
        /\ log[j].code # 500
        => log[j].idem # "claimed"

\* C4: when a submission that claimed its key failed (500), its changes are
\* rolled back and the next submission with that key, sent by the same process
\* with no other submission of that key in between or beside it, obtains
\* claimed
C4_RetryableAfterFailure ==
    \A i, j \in DOMAIN log :
        /\ RetryOf(i, j)
        /\ log[i].idem = "claimed" /\ log[i].code = 500
        /\ ~log[j].conc
        /\ \A k \in DOMAIN log : SameKey(i, k) => k = j \/ k < i \/ log[k].began >= j
        => log[j].idem = "claimed"

\* C5: a standings read served through the shared cache that starts after an
\* accepted submission for the season's event has returned, with no
\* submission running beside it, returns the standings of the rows persisted
\* at that moment
C5_CacheCoherence ==
    \A i, j \in DOMAIN log :
        /\ log[j].kind = "read" /\ log[j].via = "redis" /\ log[j].quiet
        /\ log[i].kind = "submit" /\ log[i].code = 201 /\ log[i].mutated
        /\ EventLeague(log[i].event) = ReadLeague
        /\ EventSeason(log[i].event) = log[j].season
        /\ i <= log[j].began
        => log[j].fresh

\* C6: when two submissions without a key to one event overlapped, both were
\* accepted and no third submission to the event ran beside them, the rows of
\* the event once both have finished are the rows of exactly one of the two
\* submitted sets
C6_OneOfTheTwoSets ==
    \A i, j \in DOMAIN log :
        /\ i < j
        /\ log[i].kind = "submit" /\ log[j].kind = "submit"
        /\ log[i].event = log[j].event
        /\ log[i].key = NoKey /\ log[j].key = NoKey
        /\ log[i].code = 201 /\ log[j].code = 201
        /\ log[j].began < i
        /\ \A k \in DOMAIN log \ {i, j} :
               log[k].kind = "submit" /\ log[k].event = log[i].event
                   => \/ k <= log[i].began /\ k <= log[j].began
                      \/ log[k].began >= j
        => ContentOf(log[j].rows) \in {Submitted(log[i].entries), Submitted(log[j].entries)}

\* the rows one submission writes for event e1, complete
CompleteSets ==
    {{ResultRow(no, "e1", entries[i]) : i \in DOMAIN entries} :
        no \in 0..MaxSubmits, entries \in {PayloadAB, PayloadA}}
\* the committed states in which event e1 holds nothing or one complete set
WholeStates ==
    {h \in hist : LET rows == {r \in h.results : r.event_id = "e1"}
                  IN  rows = {} \/ rows \in CompleteSets}
\* the standings lists a reader has been given or has put into a cache
ObservedStandings ==
    {cur[p].payload.items : p \in {q \in Procs : pc[q] = "cache_set"}}
    \cup {cacheRedis[k].items : k \in DOMAIN cacheRedis}
    \cup UNION {{cacheMem[p][k].payload.items : k \in DOMAIN cacheMem[p]} : p \in Procs}
    \cup {log[j].items : j \in {n \in DOMAIN log : log[n].kind = "read"}}

\* C7: a submission that has reached its cache invalidation has committed (its
\* transaction is closed and its rows are the event's rows), and every
\* standings list a reader observes is computed from a committed state in
\* which the event holds either nothing or the complete set of one submission
C7_InvalidateAfterCommit ==
    /\ \A p \in Procs :
          pc[p] \in {"invalidate", "respond"} =>
              /\ tx[p] = NoTx
              /\ RowsOf(cur[p].event) =
                     {ResultRow(cur[p].no, cur[p].event, cur[p].entries[i]) :
                         i \in DOMAIN cur[p].entries}
    /\ \A items \in ObservedStandings :
          \E h \in WholeStates :
              items \in calculate_standings(h.results, h.eventStatus, ReadLeague, "S1")

\* a reader computed standings beside a running submission and answered with
\* the standings from before it, after the submission had committed
C7_ReaderBesideSubmission ==
    \E j \in DOMAIN log :
        /\ log[j].kind = "read" /\ ~log[j].quiet /\ ~log[j].fresh
        /\ log[j].code = 200
        /\ Cardinality(hist) > 1

DupDrivers(entries) ==
    Cardinality({entries[i].driver_id : i \in DOMAIN entries}) # Len(entries)
DupPositions(entries) ==
    Cardinality({entries[i].finish_position : i \in DOMAIN entries}) # Len(entries)
ForeignDriver(e, entries) ==
    \E i \in DOMAIN entries : DriverLeague(entries[i].driver_id) # EventLeague(e)
\* the error the checks give in the order duplicate driver, duplicate finish
\* position, driver of another league; "" when the entries pass all three
ExpectedValidationError(e, entries) ==
    IF DupDrivers(entries) THEN "DUPLICATE_DRIVER"
    ELSE IF DupPositions(entries) THEN "DUPLICATE_POSITION"
    ELSE IF ForeignDriver(e, entries) THEN "MISSING_DRIVER"
    ELSE ""
\* what a rejection must leave alone
Persisted == << results, eventStatus, auditLog, cacheRedis, cacheMem, tx >>

\* C8: a step that answers a submission with 400 or 409 changes no result row,
\* event status, audit entry, cache entry or open transaction, and the request
\* had not entered the mutation; no step of a request that is still validating
\* or claiming changes them either; a request that passed the event and role
\* checks is answered DUPLICATE_DRIVER, DUPLICATE_POSITION or MISSING_DRIVER
\* exactly when that is the first of the three checks it fails, and is
\* answered IDEMPOTENCY_CONFLICT only when it passes all three and its claim
\* answered conflict
C8_RejectedBeforeMutation ==
    [][ /\ \A p \in Procs :
              /\ pc[p] \in {"idle", "claim", "claim_get"}
              /\ \/ pc'[p] # pc[p]
                 \/ Len(log') = Len(log) + 1 /\ log'[Len(log')].proc = p
              => UNCHANGED Persisted
        /\ Len(log') = Len(log) + 1 /\ log'[Len(log')].kind = "submit"
               /\ log'[Len(log')].code \notin {403, 404} =>
              LET x == log'[Len(log')]
                  expected == ExpectedValidationError(x.event, x.entries)
              IN  /\ expected # "" => x.code = 400 /\ x.err = expected
                  /\ x.code = 400 => x.err = expected /\ expected # ""
                  /\ x.code = 409 <=> x.err = "IDEMPOTENCY_CONFLICT"
                  /\ x.code = 409 => expected = "" /\ x.idem = "conflict" /\ x.key # NoKey
                  /\ x.code \in {400, 409} => ~x.mutated /\ UNCHANGED Persisted
      ]_vars

\* a submission was answered 409 while the event had rows, an audit entry and
\* a cached standings entry, and another submission was in its mutation
C8_ConflictBesideMutation ==
    \E i \in DOMAIN log :
        /\ log[i].err = "IDEMPOTENCY_CONFLICT" /\ ~log[i].mutated
        /\ log[i].rows # {} /\ auditLog # {}
        /\ cacheRedis # EmptyMap \/ cacheMem["p1"] # EmptyMap
        /\ \E p \in Procs : tx[p].del # {}

\* the rows a request with these arguments inserts
RowsWritten(no, e, entries) == {ResultRow(no, e, entries[i]) : i \in DOMAIN entries}

\* C9: only a commit changes the result rows, and it changes only the rows of
\* its own event; when no other submission to the event ran beside the
\* request, the event holds after the commit exactly one row per submitted
\* entry, all written by this request, and the 201 response lists exactly
\* those rows in strictly ascending finish_position
C9_ReplaceAll ==
    [][ /\ results' # results =>
              \E p \in Procs :
                  /\ pc[p] = "commit" /\ pc'[p] = "invalidate"
                  /\ {r \in results' : r.event_id # cur[p].event} =
                         {r \in results : r.event_id # cur[p].event}
                  /\ ~cur[p].conc =>
                         {r \in results' : r.event_id = cur[p].event} =
                             RowsWritten(cur[p].no, cur[p].event, cur[p].entries)
        /\ Len(log') = Len(log) + 1 /\ log'[Len(log')].kind = "submit"
               /\ log'[Len(log')].code = 201 /\ ~log'[Len(log')].conc =>
              LET x == log'[Len(log')] IN
              /\ x.rows = RowsWritten(x.no, x.event, x.entries)
              /\ Cardinality(x.rows) = Len(x.entries)
              /\ Len(x.items) = Len(x.entries)
              /\ Range(x.items) = ContentOf(x.rows)
              /\ \A a, b \in DOMAIN x.items :
                     a < b => x.items[a].finish_position < x.items[b].finish_position
      ]_vars

\* event e1 held the rows of d1 and d2; a submission of d1 alone was accepted
\* with no other writer on e1, and event e2 holds rows of its own
C9_AbsentDriverGone ==
    /\ SeedAudit \subseteq auditLog
    /\ RowsOf("e2") # {}
    /\ \E i \in DOMAIN log :
          /\ log[i].kind = "submit" /\ log[i].event = "e1" /\ log[i].code = 201
          /\ ~log[i].conc /\ log[i].mutated
          /\ log[i].entries = PayloadA
          /\ {r.driver_id : r \in RowsOf("e1")} = {"d1"}

\* the larger of two integers
Larger(a, b) == IF a >= b THEN a ELSE b
\* every row the store holds or a transaction is about to insert
WrittenRows == results \cup UNION {tx[p].ins : p \in Procs}

\* C11: every row written by a submission has total_points equal to the larger
\* of 0 and base + bonus_points - penalty_points, where base is what the table
\* resolved for the row's event gives its finish_position (0 without a rule);
\* total_points is never negative; base 1 with penalty 5 gives 0, base 25 with
\* bonus 1 gives 26
C11_ScoreFloor ==
    /\ \A r \in WrittenRows :
          /\ r.total_points >= 0
          /\ \E m \in _load_points_scheme(r.event_id) :
                 r.total_points =
                     Larger(0, Get(m, r.finish_position) + r.bonus_points - r.penalty_points)
    /\ schemes = {} =>
          \A r \in WrittenRows :
              /\ r.finish_position = 10 /\ r.bonus_points = 0 /\ r.penalty_points = 5
                     => r.total_points = 0
              /\ r.finish_position = 1 /\ r.bonus_points = 1 /\ r.penalty_points = 0
                     => r.total_points = 26

\* rows are persisted whose sum is below zero and whose total is 0, beside a
\* row with a bonus
C11_FlooredRowPersisted ==
    /\ \E r \in results :
          /\ r.total_points = 0
          /\ \E m \in _load_points_scheme(r.event_id) :
                 Get(m, r.finish_position) + r.bonus_points - r.penalty_points < 0
    /\ \E r \in results : r.bonus_points > 0 /\ r.total_points > r.bonus_points

\* the table the hierarchy names for an event: the default scheme of the
\* league scoped to the event's season, else the default scheme of the league
\* scoped to no season, else the built-in table
DefaultsFor(league, season) ==
    {x \in schemes : x.league_id = league /\ x.season_id = season /\ x.is_default}
HierarchyTable(e) ==
    IF DefaultsFor(EventLeague(e), EventSeason(e)) # {}
    THEN (CHOOSE x \in DefaultsFor(EventLeague(e), EventSeason(e)) : TRUE).rules
    ELSE IF DefaultsFor(EventLeague(e), NoSeason) # {}
    THEN (CHOOSE x \in DefaultsFor(EventLeague(e), NoSeason) : TRUE).rules
    ELSE << 25, 18, 15, 12, 10, 8, 6, 4, 2, 1 >>

\* C12: the table a submission scores with is the default scheme of the
\* event's league scoped to exactly the event's season if one exists, else the
\* default scheme of the league scoped to no season if one exists, else the
\* built-in table 25,18,15,12,10,8,6,4,2,1; with league default {1:10,...} and
\* season-S1 default {1:20}, an event of S1 scores position 1 with 20 and an
\* event of a season without default scheme scores it with 10
C12_ResolutionHierarchy ==
    \A p \in Procs :
        cur[p].kind = "submit" /\ pc[p] # "idle" =>
            /\ cur[p].points_map = HierarchyTable(cur[p].event)
            /\ SchemeSeason \in schemes /\ EventSeason(cur[p].event) = "S1"
                   => Get(cur[p].points_map, 1) = 20
            /\ SchemeLeague \in schemes /\ SchemeS2 \notin schemes
                   /\ EventSeason(cur[p].event) = "S2"
                   => Get(cur[p].points_map, 1) = 10
            /\ SchemeLeague \in schemes /\ EventSeason(cur[p].event) = NoSeason
                   => Get(cur[p].points_map, 1) = 10
            /\ {x \in schemes : x.league_id = "L1" /\ x.is_default} = {}
                   => Get(cur[p].points_map, 1) = 25 /\ Get(cur[p].points_map, 10) = 1

\* the league has a default scheme for season S1 and one without season; a
\* winner's row of the S1 event was persisted with 20 points plus bonus and a
\* winner's row of the event without season with 10 plus bonus
C12_SeasonSchemeWins ==
    /\ SchemeSeason \in schemes /\ SchemeLeague \in schemes
    /\ eventSeason["e1"] = "S1"
    /\ \E r \in results : r.event_id = "e1" /\ r.finish_position = 1
                            /\ r.bonus_points = 1 /\ r.total_points = 21
    /\ \E r \in results : r.event_id = "e2" /\ r.finish_position = 1
                            /\ r.bonus_points = 1 /\ r.total_points = 11

\* C10: in every reachable state no two persisted rows of one event share a
\* finish_position and no two share a driver_id
C10_UniquePositionAndDriver ==
    \A a, b \in results :
        a # b /\ a.event_id = b.event_id
            => a.finish_position # b.finish_position /\ a.driver_id # b.driver_id

\* C13: the standings order is a strict total order: no two distinct drivers
\* of a league compare equal under (points desc, wins desc, best_finish asc
\* with null last, lower-cased display_name asc), so the same persisted data
\* yields exactly one sequence, for every season of the league.
C13_StrictTotalOrder ==
    \A season \in {"S1", NoSeason} :
        Cardinality(calculate_standings(results, eventStatus, "L1", season)) = 1

\* the calculations answered so far, the drivers of a league, and the rows the
\* specification counts for a driver
Calculations == {i \in DOMAIN log : log[i].kind = "calculate"}
LeagueDrivers(league) == {d \in Drivers : DriverLeague(d) = league}
Counted(league, season) ==
    {r \in results : /\ eventStatus[r.event_id] = "COMPLETED"
                     /\ EventLeague(r.event_id) = league
                     /\ eventSeason[r.event_id] = season}

\* C14: a calculation returns exactly one row for every driver of the league;
\* a driver without a qualifying result has points 0, wins 0, best_finish null
\* and stands after every driver with points > 0; for the others points is the
\* sum of total_points, wins the number of results with finish_position 1 and
\* best_finish the least finish_position over the qualifying results.
C14_DriverComplete ==
    \A i \in Calculations :
        LET s == log[i].items
            Mine(d) == {r \in Counted(log[i].league, log[i].season) : r.driver_id = d}
        IN  /\ Len(s) = Cardinality(LeagueDrivers(log[i].league))
            /\ {s[k].driver_id : k \in DOMAIN s} = LeagueDrivers(log[i].league)
            /\ \A k \in DOMAIN s :
                  IF Mine(s[k].driver_id) = {}
                  THEN /\ s[k].points = 0 /\ s[k].wins = 0 /\ s[k].best_finish = 0
                       /\ \A j \in DOMAIN s : s[j].points > 0 => j < k
                  ELSE /\ s[k].points = SumPoints(Mine(s[k].driver_id))
                       /\ s[k].wins = Cardinality({r \in Mine(s[k].driver_id) :
                                                      r.finish_position = 1})
                       /\ \E r \in Mine(s[k].driver_id) : s[k].best_finish = r.finish_position
                       /\ \A r \in Mine(s[k].driver_id) : s[k].best_finish <= r.finish_position

\* a calculation in which one driver scored and another has no qualifying result
C14_DriverWithoutResultListed ==
    \E i \in Calculations :
        /\ Len(log[i].items) = 2
        /\ log[i].items[1].points > 0
        /\ log[i].items[2].best_finish = 0
        /\ \E r \in results : r.driver_id = log[i].items[2].driver_id

\* C15: only results of events that are COMPLETED, of the requested league and
\* of exactly the requested season contribute: the list is the one calculated
\* from those rows alone, so rows of SCHEDULED or CANCELED events, of other
\* seasons or of other leagues change nothing, and a calculation for no season
\* counts only events whose season is null.
C15_OnlyQualifyingEventsCount ==
    \A i \in Calculations :
        /\ log[i].items \in calculate_standings(Counted(log[i].league, log[i].season),
                                                [e \in DOMAIN eventStatus |-> "COMPLETED"],
                                                log[i].league, log[i].season)
        /\ \A k \in DOMAIN log[i].items :
              (\A r \in Counted(log[i].league, log[i].season) :
                    r.driver_id # log[i].items[k].driver_id)
                 => log[i].items[k].points = 0 /\ log[i].items[k].wins = 0
                    /\ log[i].items[k].best_finish = 0

\* a calculation for no season while a completed event of season S1 and an
\* event that is not completed hold rows, and a completed event without season
\* holds a counted row
C15_NoSeasonBesideOtherRows ==
    \E i \in Calculations :
        /\ log[i].league = "L1" /\ log[i].season = NoSeason
        /\ \E r \in results : eventStatus[r.event_id] = "COMPLETED"
                                 /\ eventSeason[r.event_id] = "S1"
        /\ \E r \in results : eventStatus[r.event_id] # "COMPLETED"
        /\ \E k \in DOMAIN log[i].items : log[i].items[k].points > 0

\* C16: an event becomes COMPLETED only in the commit of a results submission
\* for that event; no other step moves it from SCHEDULED or CANCELED to
\* COMPLETED, and a step that rolls a submission back leaves every status as
\* it was.
C16_CompletedOnlyBySubmission ==
    [][/\ \A e \in Events :
             eventStatus[e] # "COMPLETED" /\ eventStatus'[e] = "COMPLETED"
                => \E p \in Procs : /\ cur[p].kind = "submit" /\ cur[p].event = e
                                    /\ pc[p] = "commit" /\ pc'[p] = "invalidate"
       /\ (\E p \in Procs : pc[p] = "rollback" /\ pc'[p] # "rollback")
             => eventStatus' = eventStatus]_vars

\* C17: COMPLETED is absorbing: no step (resubmission, event update, cancel)
\* changes the status of a COMPLETED event.
C17_CompletedIsAbsorbing ==
    [][\A e \in Events : eventStatus[e] = "COMPLETED" => eventStatus'[e] = "COMPLETED"]_vars

\* C18: CANCELED is terminal: no step (results submission, event update)
\* changes the status of a CANCELED event.
C18_CanceledIsTerminal ==
    [][\A e \in Events : eventStatus[e] = "CANCELED" => eventStatus'[e] = "CANCELED"]_vars

\* C19: after the results transaction has committed, the side effects are best
\* effort: the invalidation step always leads on to the response, whether or
\* not the store answers; the request is answered 201 whichever send raised;
\* neither step changes the committed rows, status or audit entries; and every
\* actor whose own send did not raise gets its message, so a failed
\* recompute_standings send does not keep announce_results from the broker.
C19_BestEffortSideEffects ==
    [][\A p \in Procs :
          /\ pc[p] = "invalidate" /\ pc'[p] # "invalidate"
                => pc'[p] = "respond" /\ UNCHANGED << results, eventStatus, auditLog >>
          /\ pc[p] = "respond" /\ pc'[p] # "respond"
                => /\ Len(log') = Len(log) + 1
                   /\ log'[Len(log')].no = cur[p].no /\ log'[Len(log')].code = 201
                   /\ UNCHANGED << results, eventStatus, auditLog >>
                   /\ \A actor \in JobActors \ cur[p].failed :
                         \E j \in jobs' : j.actor = actor /\ j.no = cur[p].no]_vars

\* a submission answered 201 whose recompute_standings send raised and whose
\* announce_results message is on the broker, while the store is unavailable
\* and still holds the cache entry the submission could not delete
C19_AnnouncedDespiteFailures ==
    \E i \in DOMAIN log :
        /\ log[i].kind = "submit" /\ log[i].code = 201 /\ log[i].event = "e1"
        /\ log[i].failed = {"recompute_standings"}
        /\ \E j \in jobs : j.actor = "announce_results" /\ j.no = log[i].no
        /\ ~redisUp /\ cacheClient[log[i].proc] = "redis" /\ SeedCacheKey \in DOMAIN cacheRedis

\* the cache entries that can still be served: those of the shared store and
\* the unexpired ones of every process, as << key, payload >>
LiveEntries ==
    {<< k, cacheRedis[k] >> : k \in DOMAIN cacheRedis}
      \cup UNION {{<< k, cacheMem[p][k].payload >> :
                      k \in {x \in DOMAIN cacheMem[p] : ~cacheMem[p][x].expired}} :
                  p \in Procs}

\* C20: every write that affects the results of a (league, season) deletes the
\* cache entry of that (league, season): once no request is in progress, every
\* live cache entry holds the standings calculated from the committed data.
C20_NoStaleEntryAfterWrite ==
    (\A p \in Procs : pc[p] = "idle")
       => \A x \in LiveEntries :
             _deserialize_payload(x[2]).items
                \in calculate_standings(results, eventStatus, x[1][1], x[1][2])

\* C21: in every reachable state each persisted Result has bonus_points >= 0
\* and penalty_points >= 0: an entry with a negative bonus or penalty is never
\* persisted.
C21_NonNegativeAdjustments ==
    \A r \in results : r.bonus_points >= 0 /\ r.penalty_points >= 0

\* C22: after any sequence of points-scheme create, update and delete
\* operations no (league, season scope) has more than one scheme marked
\* default.
C22_OneDefaultPerScope ==
    \A a, b \in schemes :
        a.league_id = b.league_id /\ a.season_id = b.season_id
           /\ a.is_default /\ b.is_default => a.id = b.id

\* the payloads StandingsCache.get hands to the reads of process p for a key:
\* the entry of the store the process uses, if that store answers and the
\* entry is unexpired
CachedFor(p, key) ==
    IF BuildClient(cacheClient[p]) = "redis"
    THEN (IF redisUp /\ key \in DOMAIN cacheRedis THEN {cacheRedis[key]} ELSE {})
    ELSE {cacheMem[p][k].payload :
             k \in {x \in DOMAIN cacheMem[p] \cap {key} : ~cacheMem[p][x].expired}}

\* the step starts a standings read of process p
StartsRead(p) ==
    /\ pc[p] = "idle"
    /\ used'.reads = used.reads + 1
    /\ \/ pc'[p] = "calculate"
       \/ Len(log') = Len(log) + 1 /\ log'[Len(log')].proc = p

\* C23: a standings read is read-through. While a live (unexpired, not
\* invalidated) entry is served by the cache, the read returns that snapshot
\* without recalculating; on a miss it calculates the standings from the
\* store, writes the entry and returns the calculated value.
C23_ReadThrough ==
    [][\A p \in Procs :
          /\ StartsRead(p) =>
                LET season == IF pc'[p] = "calculate" THEN cur'[p].season
                              ELSE log'[Len(log')].season
                    live == CachedFor(p, CacheKey(ReadLeague, season))
                IN  IF live # {}
                    THEN /\ pc'[p] = "idle"
                         /\ log'[Len(log')].kind = "read"
                         /\ log'[Len(log')].code = 200
                         /\ log'[Len(log')].items
                               \in {_deserialize_payload(x).items : x \in live}
                    ELSE pc'[p] = "calculate" /\ log' = log
          /\ (pc[p] = "calculate" /\ pc'[p] # "calculate") =>
                /\ pc'[p] = "cache_set"
                /\ _deserialize_payload(cur'[p].payload).items
                      \in calculate_standings(results, eventStatus,
                                              ReadLeague, cur[p].season)
          /\ (pc[p] = "cache_set" /\ pc'[p] # "cache_set") =>
                /\ log'[Len(log')].proc = p
                /\ log'[Len(log')].code = 200
                /\ log'[Len(log')].items = _deserialize_payload(cur[p].payload).items
                /\ \/ /\ CacheKey(ReadLeague, cur[p].season) \in DOMAIN cacheRedis'
                      /\ cacheRedis'[CacheKey(ReadLeague, cur[p].season)] = cur[p].payload
                   \/ /\ CacheKey(ReadLeague, cur[p].season) \in DOMAIN cacheMem'[p]
                      /\ cacheMem'[p][CacheKey(ReadLeague, cur[p].season)]
                            = [payload |-> cur[p].payload, expired |-> FALSE]]_vars

\* a read was answered from the cache with a snapshot the store no longer
\* yields, and another read missed, calculated and answered
C23_SnapshotServedAndMissFilled ==
    \E i, j \in 1..Len(log) :
        /\ log[i].kind = "read" /\ log[i].hit /\ ~log[i].fresh
        /\ log[j].kind = "read" /\ ~log[j].hit /\ log[j].code = 200

\* C24: StandingsCache.set also writes the process-local fallback: after every
\* set(league, season, payload) of a process its local store holds the payload
\* unexpired, so that a get while the shared store fails can return it.
C24_SetWritesLocalFallback ==
    [][\A p \in Procs :
          (pc[p] = "cache_set" /\ pc'[p] # "cache_set") =>
              LET key == CacheKey(ReadLeague, cur[p].season) IN
              /\ key \in DOMAIN cacheMem'[p]
              /\ cacheMem'[p][key] = [payload |-> cur[p].payload, expired |-> FALSE]]_vars

\* C25: a corrupt or undeserializable cache payload is self-healing: the read
\* that meets it removes the entry, goes on to recalculate, and no read is
\* answered with an error or with the bad payload.
C25_CorruptPayloadSelfHeals ==
    [][\A p \in Procs :
          StartsRead(p) =>
             LET season == IF pc'[p] = "calculate" THEN cur'[p].season
                           ELSE log'[Len(log')].season
                 key == CacheKey(ReadLeague, season)
                 met == /\ BuildClient(cacheClient[p]) = "redis" /\ redisUp
                        /\ key \in DOMAIN cacheRedis
                        /\ cacheRedis[key] \in {InvalidJson, WrongShape}
             IN  met => /\ pc'[p] = "calculate"
                        /\ key \notin DOMAIN cacheRedis']_vars

\* C26: a request answered 201 from the duplicate path returns the result set
\* committed by the request that claimed the key: of two requests with one
\* key and the same entries for one event, the duplicate carries the items of
\* the claimed one, and the claimed one was not rolled back.
C26_DuplicateReturnsCommitted ==
    \A i, j \in DOMAIN log :
        /\ SameKey(i, j)
        /\ log[i].entries = log[j].entries
        /\ log[i].idem = "claimed"
        /\ log[j].idem = "duplicate" /\ log[j].code = 201
        => /\ log[i].code = 201
           /\ log[j].items = log[i].items

\* C27: however a standings read that missed the cache and an accepted
\* submission for the same (league, season) interleave, once both have
\* completed the entry of the shared cache is absent or holds standings
\* calculated from the committed rows.
C27_NoStaleSetAfterInvalidate ==
    /\ redisUp
    /\ \A p \in Procs : pc[p] = "idle"
    /\ \E i, j \in DOMAIN log :
          /\ log[i].kind = "submit" /\ log[i].code = 201 /\ log[i].mutated
          /\ log[j].kind = "read" /\ ~log[j].hit /\ log[j].code = 200
          /\ EventLeague(log[i].event) = ReadLeague
          /\ EventSeason(log[i].event) = log[j].season
    => \A k \in DOMAIN cacheRedis :
          _deserialize_payload(cacheRedis[k]).items
             \in calculate_standings(results, eventStatus, k[1], k[2])

\* the idempotency record process p can find for a storage key: that of the
\* shared store, or an unexpired one of its local store
RecordsFor(p, sk) ==
    (IF sk \in DOMAIN idemRedis THEN {idemRedis[sk]} ELSE {})
      \cup {idemMem[p][k].hash :
               k \in {x \in DOMAIN idemMem[p] \cap {sk} : ~idemMem[p][x].expired}}

\* C28: release removes the record from the store the claim recorded it in:
\* when the only submission made so far claimed its key, failed and released
\* it, neither the local store of the process nor the reachable shared store
\* is left with a record of the key, whatever the shared store did in the
\* meantime.
C28_ReleaseRemovesRecord ==
    [][\A p \in Procs :
          /\ pc[p] = "release" /\ pc'[p] # "release"
          /\ used.submits = 1
          /\ used.expiries = 0
          => LET sk == _build_key(cur[p].event, cur[p].key) IN
             /\ redisUp => sk \notin DOMAIN idemRedis'
             /\ sk \notin DOMAIN idemMem'[p]]_vars

\* C29: claim answers conflict only when a live record with another
\* fingerprint exists for the key, and duplicate only when a live record with
\* the same fingerprint exists: it gives neither answer for a key whose record
\* a release or the TTL removed before the follow-up read.
C29_ConflictOnlyWithRecord ==
    [][\A p \in Procs :
          /\ pc[p] \in {"claim", "claim_get"}
          /\ pc'[p] = "idle"
          => LET found == RecordsFor(p, _build_key(cur[p].event, cur[p].key))
                 answer == log'[Len(log')].idem
             IN  /\ answer = "conflict" => \E h \in found : h # cur[p].hash
                 /\ answer = "duplicate" => cur[p].hash \in found]_vars

\* the submission answered by log entry i was rejected before the idempotency
\* gate
RejectedEarly(i) ==
    /\ log[i].kind = "submit"
    /\ log[i].code \in {400, 403, 404}
    /\ log[i].idem = "none"

\* C30: a submission rejected before the idempotency gate (404, 403 or a 400
\* of the entry validation) creates and alters no idempotency record, and a
\* later submission with the same key that passes validation, with no other
\* submission of that key than rejected ones, obtains claimed.
C30_RejectionLeavesKeyFree ==
    [][/\ (/\ Len(log') = Len(log) + 1
           /\ log'[Len(log')].kind = "submit"
           /\ log'[Len(log')].code \in {400, 403, 404})
          => UNCHANGED << idemRedis, idemMem >>
       /\ \A p \in Procs :
             /\ pc[p] \in {"claim", "claim_get"} /\ pc'[p] # pc[p]
             /\ ~cur[p].conc
             /\ \E i \in DOMAIN log :
                    RejectedEarly(i) /\ Lower(log[i].key) = Lower(cur[p].key)
             /\ \A i \in DOMAIN log :
                    (/\ log[i].kind = "submit" /\ log[i].event = cur[p].event
                     /\ Lower(log[i].key) = Lower(cur[p].key))
                    => RejectedEarly(i)
             => pc'[p] = "delete" /\ cur'[p].idem = "claimed"]_vars

\* a key first sent with entries that failed validation was sent again with
\* valid entries, and that submission was accepted as the claimant of the key
C30_KeyReusedAfterRejection ==
    \E i, j \in DOMAIN log :
        /\ i < j
        /\ RejectedEarly(i) /\ log[i].code = 400 /\ log[i].key # NoKey
        /\ log[j].kind = "submit" /\ log[j].event = log[i].event
        /\ log[j].key = log[i].key
        /\ log[j].idem = "claimed" /\ log[j].code = 201

=============================================================================
